---- MODULE Spec2Model ----
(***************************************************************************)
(* Model of src/src/analyze/python/pythonTrackingAnalyzer.py: the          *)
(* TrackingVisitor walk over a Python syntax tree and analyze_python_code. *)
(*                                                                         *)
(* A Python value is a record [t, v] (its type name and its repr), a       *)
(* syntax-tree node a record with a field kind, a Python dict a sequence   *)
(* of <<key, value>> pairs in insertion order, and an absent optional node *)
(* the node NoNode.                                                        *)
(***************************************************************************)
EXTENDS Integers, Sequences, FiniteSets, TLC

VARIABLES
    tree,               \* the parsed module handed to visitor.visit
    custom_function,    \* TrackingVisitor.custom_function ("" for None)
    pc,                 \* "walk" while the visitor runs, then "done"
    todo,               \* the nodes still to dispatch, in visiting order
    events,             \* TrackingVisitor.events
    current_function,   \* TrackingVisitor.current_function
    function_stack,     \* TrackingVisitor.function_stack
    var_types,          \* TrackingVisitor.var_types
    var_types_stack,    \* TrackingVisitor.var_types_stack
    visited,            \* line numbers of the Call nodes dispatched so far
    output,             \* what analyze_python_code returns
    result,             \* the value returned by a function applied on its own
    runs                \* the calls of analyze_python_code that have returned

vars == <<tree, custom_function, pc, todo, events, current_function,
          function_stack, var_types, var_types_stack, visited, output, result,
          runs>>

(***************************************************************************)
(* Python values and dicts                                                 *)
(***************************************************************************)
StrV(s) == [t |-> "str", v |-> s]
IntV(s) == [t |-> "int", v |-> s]
FloatV(s) == [t |-> "float", v |-> s]
BoolV(s) == [t |-> "bool", v |-> s]
BytesV(s) == [t |-> "bytes", v |-> s]
PyNone == [t |-> "NoneType", v |-> "None"]
PyTrue == BoolV("True")
PyFalse == BoolV("False")
PyEllipsis == [t |-> "ellipsis", v |-> "Ellipsis"]

\* bool(value) of a constant, as tested by `if event_name:` and `if distinct_id:`
Truthy(value) ==
    CASE value.t = "str" -> value.v # ""
      [] value.t = "bytes" -> value.v # ""
      [] value.t = "int" -> value.v # "0"
      [] value.t = "float" -> value.v # "0.0"
      [] value.t = "bool" -> value.v = "True"
      [] value.t = "NoneType" -> FALSE
      [] OTHER -> TRUE

\* str(value), as formatted by an f-string
PyStr(value) == value.v

\* the number a numeric constant stands for, written as an int where it is one
PyNumber(value) ==
    CASE value = [t |-> "bool", v |-> "True"] -> "1"
      [] value = [t |-> "bool", v |-> "False"] -> "0"
      [] value = [t |-> "float", v |-> "1.0"] -> "1"
      [] value = [t |-> "float", v |-> "0.0"] -> "0"
      [] OTHER -> value.v

\* a == b for two constants used as dict keys: True == 1 == 1.0
PyEq(a, b) ==
    \/ a = b
    \/ /\ a.t \in {"bool", "int", "float"}
       /\ b.t \in {"bool", "int", "float"}
       /\ PyNumber(a) = PyNumber(b)

DictHas(d, k) == \E i \in 1..Len(d) : PyEq(d[i][1], k)

DictGet(d, k) == d[CHOOSE i \in 1..Len(d) : PyEq(d[i][1], k)][2]

\* d[k] = v : an existing key keeps its place and its key object, a new one
\* goes last
DictSet(d, k, v) ==
    IF DictHas(d, k)
    THEN [i \in 1..Len(d) |-> IF PyEq(d[i][1], k) THEN <<d[i][1], v>> ELSE d[i]]
    ELSE Append(d, <<k, v>>)

RECURSIVE DictUpdate(_, _)
\* d.update(e)
DictUpdate(d, e) ==
    IF e = <<>> THEN d
    ELSE DictUpdate(DictSet(d, e[1][1], e[1][2]), Tail(e))

(***************************************************************************)
(* Syntax-tree nodes (the classes of Python's ast the visitor tests for)   *)
(***************************************************************************)
NoNode == [kind |-> "None"]
Constant(value) == [kind |-> "Constant", value |-> value]
Name(id) == [kind |-> "Name", id |-> id]
Attribute(value, attr) == [kind |-> "Attribute", value |-> value, attr |-> attr]
Subscript(value, slice) == [kind |-> "Subscript", value |-> value, slice |-> slice]
keyword(arg, value) == [kind |-> "keyword", arg |-> arg, value |-> value]
Call(lineno, func, args, keywords) ==
    [kind |-> "Call", lineno |-> lineno, func |-> func, args |-> args,
     keywords |-> keywords]
Dict(keys, values) == [kind |-> "Dict", keys |-> keys, values |-> values]
List(elts) == [kind |-> "List", elts |-> elts]
Tuple(elts) == [kind |-> "Tuple", elts |-> elts]
\* a node class without a handler of its own (JoinedStr, BinOp, Lambda, ...)
Other(kind, children) == [kind |-> kind, children |-> children]
arg(name, annotation) == [kind |-> "arg", arg |-> name, annotation |-> annotation]
arguments(posonlyargs, args, kwonlyargs) ==
    [kind |-> "arguments", posonlyargs |-> posonlyargs, args |-> args,
     kwonlyargs |-> kwonlyargs]
FunctionDef(name, args, body, decorator_list) ==
    [kind |-> "FunctionDef", name |-> name, args |-> args, body |-> body,
     decorator_list |-> decorator_list]
AsyncFunctionDef(name, args, body, decorator_list) ==
    [kind |-> "AsyncFunctionDef", name |-> name, args |-> args, body |-> body,
     decorator_list |-> decorator_list]
ClassDef(name, body, decorator_list) ==
    [kind |-> "ClassDef", name |-> name, body |-> body,
     decorator_list |-> decorator_list]
Assign(targets, value) == [kind |-> "Assign", targets |-> targets, value |-> value]
AnnAssign(target, annotation, value) ==
    [kind |-> "AnnAssign", target |-> target, annotation |-> annotation,
     value |-> value]
AugAssign(target, value) == [kind |-> "AugAssign", target |-> target, value |-> value]
Expr(value) == [kind |-> "Expr", value |-> value]
Module(body) == [kind |-> "Module", body |-> body]

(***************************************************************************)
(* Module constants                                                        *)
(***************************************************************************)
\* the entries of ANALYTICS_SOURCES that have 'object' and 'method'
ANALYTICS_SOURCES ==
    << [source |-> "segment", object |-> "analytics", method |-> "track"],
       [source |-> "mixpanel", object |-> "mp", method |-> "track"],
       [source |-> "rudderstack", object |-> "rudder_analytics", method |-> "track"],
       [source |-> "posthog", object |-> "posthog", method |-> "capture"] >>

\* a variant that gives an unknown type name back as the type
TYPE_MAPPINGS_or_name(type_name) ==
    CASE type_name \in {"int", "float"} -> "number"
      [] type_name = "str" -> "string"
      [] type_name = "bool" -> "boolean"
      [] type_name \in {"None", "NoneType"} -> "null"
      [] OTHER -> type_name

\* TYPE_MAPPINGS.get(type_name, 'any')
TYPE_MAPPINGS(type_name) ==
    CASE type_name \in {"int", "float"} -> "number"
      [] type_name = "str" -> "string"
      [] type_name = "bool" -> "boolean"
      [] type_name \in {"None", "NoneType"} -> "null"
      [] OTHER -> "any"

ARRAY_TYPES == {"List", "Tuple", "Set", "list", "tuple", "set"}

OBJECT_TYPES == {"Dict", "dict"}

(***************************************************************************)
(* Type inference                                                          *)
(***************************************************************************)
\* A PropertyType is a str, [s |-> "number"], or a dict, [d |-> descriptor].

\* a variant that makes the number test first (a bool is an int)
get_value_type_number_first(value) ==
    CASE value.t \in {"int", "float", "bool"} -> "number"
      [] value.t = "str" -> "string"
      [] value.t = "NoneType" -> "null"
      [] OTHER -> "any"

get_value_type(value) ==
    CASE value.t = "bool" -> "boolean"
      [] value.t = "str" -> "string"
      [] value.t \in {"int", "float"} -> "number"
      [] value.t = "NoneType" -> "null"
      [] OTHER -> "any"

RECURSIVE extract_type_annotation(_)

extract_type_annotation(annotation) ==
    IF annotation.kind = "Name"
    THEN [s |-> TYPE_MAPPINGS(annotation.id)]
    ELSE IF annotation.kind = "Subscript" /\ annotation.value.kind = "Name"
    THEN IF annotation.value.id \in ARRAY_TYPES
         THEN IF annotation.slice.kind = "Name"
              THEN [d |-> [type |-> "array",
                           items |-> [type |-> extract_type_annotation(annotation.slice).s]]]
              ELSE [s |-> "array"]
         ELSE IF annotation.value.id \in OBJECT_TYPES
         THEN [s |-> "object"]
         ELSE [s |-> "any"]
    ELSE [s |-> "any"]

\* the type appended to element_types for one element of a sequence literal
element_type(element, vt) ==
    CASE element.kind = "Constant" -> get_value_type(element.value)
      [] element.kind = "Name" ->
            IF element.id \in DOMAIN vt
            THEN IF "s" \in DOMAIN vt[element.id] THEN vt[element.id].s ELSE "any"
            ELSE "any"
      [] element.kind = "Dict" -> "object"
      [] element.kind \in {"List", "Tuple"} -> "array"
      [] OTHER -> "any"

\* a variant that tries number/boolean before number/string and takes a mix
\* of numbers and strings for numbers
infer_sequence_item_type_number_first(seq_node, vt) ==
    IF seq_node.elts = <<>>
    THEN [type |-> "any"]
    ELSE LET unique_types == {element_type(seq_node.elts[i], vt) :
                                 i \in 1..Len(seq_node.elts)}
         IN  IF Cardinality(unique_types) = 1
             THEN [type |-> element_type(seq_node.elts[1], vt)]
             ELSE IF unique_types \subseteq {"number", "boolean", "string"}
             THEN [type |-> "number"]
             ELSE [type |-> "any"]

infer_sequence_item_type(seq_node, vt) ==
    IF seq_node.elts = <<>>
    THEN [type |-> "any"]
    ELSE LET element_types ==
                 [i \in 1..Len(seq_node.elts) |-> element_type(seq_node.elts[i], vt)]
             unique_types == {element_types[i] : i \in 1..Len(element_types)}
         IN  IF Cardinality(unique_types) = 1
             THEN [type |-> element_types[1]]
             ELSE IF unique_types \subseteq {"number", "string"}
             THEN [type |-> "string"]
             ELSE IF unique_types \subseteq {"number", "boolean"}
             THEN [type |-> "number"]
             ELSE [type |-> "any"]

\* the None returned when no type is extracted
NoType == [none |-> TRUE]

RECURSIVE _extract_property_type(_, _), extract_nested_dict_from(_, _, _, _)

\* the loop of extract_nested_dict from entry i on, nested_props so far
extract_nested_dict_from(dict_node, vt, i, nested_props) ==
    IF i > Len(dict_node.keys) THEN nested_props
    ELSE LET key_node == dict_node.keys[i]
             prop_type == _extract_property_type(dict_node.values[i], vt)
         IN  extract_nested_dict_from(dict_node, vt, i + 1,
                 IF key_node.kind = "Constant" /\ prop_type # NoType
                 THEN DictSet(nested_props, key_node.value, prop_type)
                 ELSE nested_props)

extract_nested_dict(dict_node, vt) == extract_nested_dict_from(dict_node, vt, 1, <<>>)

_extract_property_type(value_node, vt) ==
    CASE value_node.kind = "Constant" -> [type |-> get_value_type(value_node.value)]
      [] value_node.kind = "Name" ->
            IF value_node.id \in DOMAIN vt
            THEN IF "d" \in DOMAIN vt[value_node.id]
                 THEN vt[value_node.id].d
                 ELSE [type |-> vt[value_node.id].s]
            ELSE [type |-> "any"]
      [] value_node.kind = "Dict" ->
            [type |-> "object", properties |-> extract_nested_dict(value_node, vt)]
      [] value_node.kind \in {"List", "Tuple"} ->
            [type |-> "array", items |-> infer_sequence_item_type(value_node, vt)]
      [] OTHER -> NoType

(***************************************************************************)
(* Call-shape recognition                                                  *)
(***************************************************************************)
\* the None returned by detect_source and by the event-name extractors
NoSource == "None"

_is_amplitude_call(node) ==
    IF Len(node.args) < 1 THEN FALSE
    ELSE LET first_arg == node.args[1]
         IN  IF first_arg.kind = "Call" /\ first_arg.func.kind = "Name"
             THEN first_arg.func.id = "BaseEvent"
             ELSE FALSE

_is_snowplow_tracker_call(node) ==
    IF Len(node.args) < 1 THEN FALSE
    ELSE LET first_arg == node.args[1]
         IN  IF first_arg.kind = "Call" /\ first_arg.func.kind = "Name"
             THEN first_arg.func.id = "StructuredEvent"
             ELSE IF first_arg.kind = "Name"
             THEN node.func.value.id = "tracker"
             ELSE FALSE

_is_snowplow_function_call(node) ==
    IF Len(node.args) >= 1 /\ node.args[1].kind = "Constant"
    THEN node.args[1].value = StrV("trackStructEvent")
    ELSE FALSE

\* a variant that tries the amplitude rule before the table
_detect_method_call_source_amplitude_first(node) ==
    IF node.func.value.kind # "Name" THEN NoSource
    ELSE LET obj_id == node.func.value.id
             method_name == node.func.attr
             hits == {i \in 1..Len(ANALYTICS_SOURCES) :
                         /\ obj_id = ANALYTICS_SOURCES[i].object
                         /\ method_name = ANALYTICS_SOURCES[i].method}
         IN  IF method_name = "track" /\ _is_amplitude_call(node)
             THEN "amplitude"
             ELSE IF hits # {}
             THEN ANALYTICS_SOURCES[CHOOSE i \in hits : \A j \in hits : i <= j].source
             ELSE IF method_name = "track" /\ _is_snowplow_tracker_call(node)
             THEN "snowplow"
             ELSE NoSource

_detect_method_call_source(node) ==
    IF node.func.value.kind # "Name" THEN NoSource
    ELSE LET obj_id == node.func.value.id
             method_name == node.func.attr
             hits == {i \in 1..Len(ANALYTICS_SOURCES) :
                         /\ obj_id = ANALYTICS_SOURCES[i].object
                         /\ method_name = ANALYTICS_SOURCES[i].method}
         IN  IF hits # {}
             THEN ANALYTICS_SOURCES[CHOOSE i \in hits : \A j \in hits : i <= j].source
             ELSE IF method_name = "track" /\ _is_amplitude_call(node)
             THEN "amplitude"
             ELSE IF method_name = "track" /\ _is_snowplow_tracker_call(node)
             THEN "snowplow"
             ELSE NoSource

\* a variant with the name customTrackFunction built in
_detect_function_call_source_builtin_name(node, custom) ==
    IF node.func.id \in {"trackStructEvent", "buildStructEvent"} THEN "snowplow"
    ELSE IF node.func.id = "snowplow" /\ _is_snowplow_function_call(node) THEN "snowplow"
    ELSE IF node.func.id \in {custom, "customTrackFunction"} THEN "custom"
    ELSE NoSource

_detect_function_call_source(node, custom) ==
    LET func_name == node.func.id
    IN  IF func_name \in {"trackStructEvent", "buildStructEvent"}
        THEN "snowplow"
        ELSE IF func_name = "snowplow" /\ _is_snowplow_function_call(node)
        THEN "snowplow"
        ELSE IF custom # "" /\ func_name = custom
        THEN "custom"
        ELSE NoSource

detect_source(node, custom) ==
    IF node.func.kind = "Attribute"
    THEN _detect_method_call_source(node)
    ELSE IF node.func.kind = "Name"
    THEN _detect_function_call_source(node, custom)
    ELSE NoSource

(***************************************************************************)
(* Event name                                                              *)
(***************************************************************************)
\* the value of the first keyword of keywords named kwname whose value is a
\* constant, or None
RECURSIVE first_constant_keyword(_, _)
first_constant_keyword(keywords, kwname) ==
    IF keywords = <<>> THEN PyNone
    ELSE IF Head(keywords).arg = kwname /\ Head(keywords).value.kind = "Constant"
    THEN Head(keywords).value.value
    ELSE first_constant_keyword(Tail(keywords), kwname)

has_constant_keyword(keywords, kwname) ==
    \E i \in 1..Len(keywords) :
        keywords[i].arg = kwname /\ keywords[i].value.kind = "Constant"

\* a variant that reads the first positional argument
_extract_standard_event_name_first(node) ==
    IF Len(node.args) >= 1 /\ node.args[1].kind = "Constant"
    THEN node.args[1].value
    ELSE PyNone

_extract_standard_event_name(node) ==
    IF Len(node.args) >= 2 /\ node.args[2].kind = "Constant"
    THEN node.args[2].value
    ELSE PyNone

_extract_amplitude_event_name(node) ==
    IF Len(node.args) < 1 \/ node.args[1].kind # "Call"
    THEN PyNone
    ELSE first_constant_keyword(node.args[1].keywords, "event_type")

_extract_posthog_event_name(node) ==
    IF has_constant_keyword(node.keywords, "event")
    THEN first_constant_keyword(node.keywords, "event")
    ELSE IF Len(node.args) >= 2 /\ node.args[2].kind = "Constant"
    THEN node.args[2].value
    ELSE PyNone

_extract_snowplow_event_name(node) ==
    IF /\ Len(node.args) >= 1
       /\ node.args[1].kind = "Call"
       /\ node.args[1].func.kind = "Name"
       /\ node.args[1].func.id = "StructuredEvent"
    THEN first_constant_keyword(node.args[1].keywords, "action")
    ELSE PyNone

\* a variant that takes an identifier for the name it spells
_extract_custom_event_name_identifier(node) ==
    IF Len(node.args) >= 1 /\ node.args[1].kind = "Constant"
    THEN node.args[1].value
    ELSE IF Len(node.args) >= 1 /\ node.args[1].kind = "Name"
    THEN StrV(node.args[1].id)
    ELSE PyNone

_extract_custom_event_name(node) ==
    IF Len(node.args) >= 1 /\ node.args[1].kind = "Constant"
    THEN node.args[1].value
    ELSE PyNone

extract_event_name(node, source) ==
    CASE source \in {"segment", "rudderstack", "mixpanel"} ->
            _extract_standard_event_name(node)
      [] source = "amplitude" -> _extract_amplitude_event_name(node)
      [] source = "posthog" -> _extract_posthog_event_name(node)
      [] source = "snowplow" -> _extract_snowplow_event_name(node)
      [] source = "custom" -> _extract_custom_event_name(node)
      [] OTHER -> PyNone

(***************************************************************************)
(* Properties                                                              *)
(***************************************************************************)
StringType == [type |-> "string"]

_is_non_null_value(node) ==
    IF node.kind = "Constant" THEN node.value # PyNone
    ELSE IF node.kind = "Name" THEN TRUE
    ELSE FALSE

_extract_amplitude_user_id(node) ==
    IF Len(node.args) < 1 \/ node.args[1].kind # "Call"
    THEN <<>>
    ELSE IF \E i \in 1..Len(node.args[1].keywords) :
                /\ node.args[1].keywords[i].arg = "user_id"
                /\ _is_non_null_value(node.args[1].keywords[i].value)
    THEN << <<StrV("user_id"), StringType>> >>
    ELSE <<>>

\* the first keyword named kwname whose value is a Dict, or NoNode
RECURSIVE first_dict_keyword(_, _)
first_dict_keyword(keywords, kwname) ==
    IF keywords = <<>> THEN NoNode
    ELSE IF Head(keywords).arg = kwname /\ Head(keywords).value.kind = "Dict"
    THEN Head(keywords).value
    ELSE first_dict_keyword(Tail(keywords), kwname)

_get_properties_node(node, source) ==
    CASE source \in {"segment", "rudderstack", "mixpanel"} ->
            IF Len(node.args) > 2 THEN node.args[3] ELSE NoNode
      [] source = "amplitude" ->
            IF Len(node.args) >= 1 /\ node.args[1].kind = "Call"
            THEN first_dict_keyword(node.args[1].keywords, "event_properties")
            ELSE NoNode
      [] source = "custom" ->
            IF Len(node.args) > 1 THEN node.args[2] ELSE NoNode
      [] source = "posthog" ->
            IF first_dict_keyword(node.keywords, "properties") # NoNode
            THEN first_dict_keyword(node.keywords, "properties")
            ELSE IF Len(node.args) > 2 THEN node.args[3] ELSE NoNode
      [] OTHER -> NoNode

\* a variant that looks at the first key only
is_anonymous_first_key(props_node) ==
    /\ props_node.kind = "Dict"
    /\ Len(props_node.keys) >= 1
    /\ props_node.keys[1].kind = "Constant"
    /\ props_node.keys[1].value = StrV("$process_person_profile")
    /\ props_node.values[1].kind = "Constant"
    /\ props_node.values[1].value = PyFalse

\* the loop over props_node.keys that looks for $process_person_profile: False
is_anonymous(props_node) ==
    /\ props_node.kind = "Dict"
    /\ \E i \in 1..Len(props_node.keys) :
          /\ props_node.keys[i].kind = "Constant"
          /\ props_node.keys[i].value = StrV("$process_person_profile")
          /\ props_node.values[i].kind = "Constant"
          /\ props_node.values[i].value = PyFalse

_extract_posthog_user_id(node) ==
    IF is_anonymous(_get_properties_node(node, "posthog"))
    THEN <<>>
    ELSE IF /\ Len(node.args) > 0
            /\ node.args[1].kind = "Constant"
            /\ Truthy(node.args[1].value)
    THEN << <<StrV("distinct_id"), StringType>> >>
    ELSE <<>>

_extract_user_id(node, source) ==
    CASE source \in {"segment", "rudderstack"} ->
            IF Len(node.args) > 0 /\ _is_non_null_value(node.args[1])
            THEN << <<StrV("user_id"), StringType>> >>
            ELSE <<>>
      [] source = "mixpanel" ->
            IF Len(node.args) > 0 /\ _is_non_null_value(node.args[1])
            THEN << <<StrV("distinct_id"), StringType>> >>
            ELSE <<>>
      [] source = "amplitude" -> _extract_amplitude_user_id(node)
      [] source = "posthog" -> _extract_posthog_user_id(node)
      [] OTHER -> <<>>

\* properties[f"{key}.{nested_key}"] = nested_value for every nested entry
RECURSIVE flatten_nested(_, _, _)
flatten_nested(properties, key, nested_props) ==
    IF nested_props = <<>> THEN properties
    ELSE flatten_nested(
             DictSet(properties,
                     StrV(PyStr(key) \o "." \o PyStr(nested_props[1][1])),
                     nested_props[1][2]),
             key, Tail(nested_props))

\* the loop of _extract_dict_properties from entry i on, properties so far
RECURSIVE _extract_dict_properties_from(_, _, _, _, _)
_extract_dict_properties_from(dict_node, source, vt, i, properties) ==
    IF i > Len(dict_node.keys) THEN properties
    ELSE LET key_node == dict_node.keys[i]
             value_node == dict_node.values[i]
             key == key_node.value
             prop_type == _extract_property_type(value_node, vt)
             next ==
                 IF key_node.kind # "Constant" THEN properties
                 ELSE IF source = "posthog" /\ key \in {StrV("$set"), StrV("$set_once")}
                 THEN IF value_node.kind = "Dict"
                      THEN flatten_nested(properties, key,
                                          extract_nested_dict(value_node, vt))
                      ELSE properties
                 ELSE IF source = "posthog" /\ key = StrV("$process_person_profile")
                 THEN properties
                 ELSE IF prop_type # NoType
                 THEN DictSet(properties, key, prop_type)
                 ELSE properties
         IN  _extract_dict_properties_from(dict_node, source, vt, i + 1, next)

_extract_dict_properties(dict_node, source, vt) ==
    _extract_dict_properties_from(dict_node, source, vt, 1, <<>>)

\* the loop over the keywords of StructuredEvent, properties so far
RECURSIVE snowplow_keywords(_, _, _)
snowplow_keywords(keywords, vt, properties) ==
    IF keywords = <<>> THEN properties
    ELSE LET kw == Head(keywords)
             prop_name == IF kw.arg = "property_" THEN "property" ELSE kw.arg
             prop_type == _extract_property_type(kw.value, vt)
         IN  snowplow_keywords(Tail(keywords), vt,
                 IF kw.arg # "" /\ kw.arg # "action" /\ prop_type # NoType
                 THEN DictSet(properties, StrV(prop_name), prop_type)
                 ELSE properties)

_extract_snowplow_properties(node, vt) ==
    IF /\ Len(node.args) >= 1
       /\ node.args[1].kind = "Call"
       /\ node.args[1].func.kind = "Name"
       /\ node.args[1].func.id = "StructuredEvent"
    THEN snowplow_keywords(node.args[1].keywords, vt, <<>>)
    ELSE <<>>

extract_properties(node, source, vt) ==
    LET user_id_prop == _extract_user_id(node, source)
        props_node == _get_properties_node(node, source)
    IN  IF source = "snowplow"
        THEN DictUpdate(user_id_prop, _extract_snowplow_properties(node, vt))
        ELSE IF props_node.kind = "Dict"
        THEN DictUpdate(user_id_prop, _extract_dict_properties(props_node, source, vt))
        ELSE user_id_prop

(***************************************************************************)
(* The walk: ast.NodeVisitor dispatches a node to visit_<class> when the   *)
(* visitor defines it and to generic_visit otherwise, and generic_visit    *)
(* visits the child nodes in the order of the class's _fields.             *)
(***************************************************************************)
RECURSIVE present(_)
\* the nodes of a field's list (None entries and absent nodes are skipped)
present(nodes) ==
    IF nodes = <<>> THEN <<>>
    ELSE IF Head(nodes).kind \in {"None", "NoKey"} THEN present(Tail(nodes))
    ELSE <<Head(nodes)>> \o present(Tail(nodes))

Children(node) ==
    CASE node.kind = "Module" -> node.body
      [] node.kind = "Expr" -> <<node.value>>
      [] node.kind \in {"FunctionDef", "AsyncFunctionDef"} ->
            <<node.args>> \o node.body \o node.decorator_list
      [] node.kind = "ClassDef" -> node.body \o node.decorator_list
      [] node.kind = "arguments" -> node.posonlyargs \o node.args \o node.kwonlyargs
      [] node.kind = "arg" -> present(<<node.annotation>>)
      [] node.kind = "Assign" -> node.targets \o <<node.value>>
      [] node.kind = "AnnAssign" -> present(<<node.target, node.annotation, node.value>>)
      [] node.kind = "AugAssign" -> <<node.target, node.value>>
      [] node.kind = "Call" -> <<node.func>> \o node.args \o node.keywords
      [] node.kind = "keyword" -> <<node.value>>
      [] node.kind = "Dict" -> present(node.keys) \o node.values
      [] node.kind \in {"List", "Tuple"} -> node.elts
      [] node.kind = "Attribute" -> <<node.value>>
      [] node.kind = "Subscript" -> <<node.value, node.slice>>
      [] node.kind \in {"Constant", "Name"} -> <<>>
      [] OTHER -> node.children

\* the node classes TrackingVisitor defines a visit_ method for
Handled == {"FunctionDef", "ClassDef", "AnnAssign", "Assign", "Call"}

RECURSIVE visit(_), visit_all(_)
\* NodeVisitor.visit(node) up to the next call of a visit_ method of the
\* visitor: the nodes it dispatches to one, in order
visit(node) ==
    IF node.kind \in Handled THEN <<node>> ELSE visit_all(Children(node))

visit_all(nodes) ==
    IF nodes = <<>> THEN <<>> ELSE visit(Head(nodes)) \o visit_all(Tail(nodes))

generic_visit(node) == visit_all(Children(node))

\* the statements of visit_FunctionDef and visit_ClassDef that follow
\* generic_visit, pending until the children are done
Restore == [kind |-> "restore"]

FilePath == "main.py"

EmptyTypes == [x \in {} |-> [s |-> "any"]]

SetType(vt, name, type) ==
    [x \in DOMAIN vt \cup {name} |-> IF x = name THEN type ELSE vt[x]]

RECURSIVE parameter_types(_, _)
\* the loop over node.args.args of visit_FunctionDef
parameter_types(args, vt) ==
    IF args = <<>> THEN vt
    ELSE parameter_types(Tail(args),
             IF Head(args).annotation # NoNode
             THEN SetType(vt, Head(args).arg,
                          extract_type_annotation(Head(args).annotation))
             ELSE vt)

visit_FunctionDef ==
    /\ pc = "walk" /\ todo # <<>> /\ Head(todo).kind = "FunctionDef"
    /\ LET node == Head(todo)
       IN  /\ function_stack' = Append(function_stack, current_function)
           /\ var_types_stack' = Append(var_types_stack, var_types)
           /\ var_types' = parameter_types(node.args.args, EmptyTypes)
           /\ current_function' = node.name
           /\ todo' = generic_visit(node) \o <<Restore>> \o Tail(todo)
    /\ UNCHANGED <<tree, custom_function, pc, events, visited, output, result, runs>>

visit_ClassDef ==
    /\ pc = "walk" /\ todo # <<>> /\ Head(todo).kind = "ClassDef"
    /\ LET node == Head(todo)
       IN  /\ function_stack' = Append(function_stack, current_function)
           /\ var_types_stack' = Append(var_types_stack, var_types)
           /\ var_types' = EmptyTypes
           /\ current_function' = node.name
           /\ todo' = generic_visit(node) \o <<Restore>> \o Tail(todo)
    /\ UNCHANGED <<tree, custom_function, pc, events, visited, output, result, runs>>

\* "Restore function context and variable types"
restore_context ==
    /\ pc = "walk" /\ todo # <<>> /\ Head(todo).kind = "restore"
    /\ current_function' = function_stack[Len(function_stack)]
    /\ function_stack' = SubSeq(function_stack, 1, Len(function_stack) - 1)
    /\ var_types' = var_types_stack[Len(var_types_stack)]
    /\ var_types_stack' = SubSeq(var_types_stack, 1, Len(var_types_stack) - 1)
    /\ todo' = Tail(todo)
    /\ UNCHANGED <<tree, custom_function, pc, events, visited, output, result, runs>>

visit_AnnAssign ==
    /\ pc = "walk" /\ todo # <<>> /\ Head(todo).kind = "AnnAssign"
    /\ LET node == Head(todo)
       IN  /\ var_types' =
                  IF node.target.kind = "Name" /\ node.annotation # NoNode
                  THEN SetType(var_types, node.target.id,
                               extract_type_annotation(node.annotation))
                  ELSE var_types
           /\ todo' = generic_visit(node) \o Tail(todo)
    /\ UNCHANGED <<tree, custom_function, pc, events, current_function,
                   function_stack, var_types_stack, visited, output, result, runs>>

\* a variant that binds the name to any when the value is not a literal
visit_Assign_any_value ==
    /\ pc = "walk" /\ todo # <<>> /\ Head(todo).kind = "Assign"
    /\ LET node == Head(todo)
       IN  /\ var_types' =
                  IF Len(node.targets) = 1 /\ node.targets[1].kind = "Name"
                  THEN SetType(var_types, node.targets[1].id,
                               [s |-> IF node.value.kind = "Constant"
                                      THEN get_value_type(node.value.value)
                                      ELSE "any"])
                  ELSE var_types
           /\ todo' = generic_visit(node) \o Tail(todo)
    /\ UNCHANGED <<tree, custom_function, pc, events, current_function,
                   function_stack, var_types_stack, visited, output, result, runs>>

visit_Assign ==
    /\ pc = "walk" /\ todo # <<>> /\ Head(todo).kind = "Assign"
    /\ LET node == Head(todo)
       IN  /\ var_types' =
                  IF /\ Len(node.targets) = 1
                     /\ node.targets[1].kind = "Name"
                     /\ node.value.kind = "Constant"
                  THEN SetType(var_types, node.targets[1].id,
                               [s |-> get_value_type(node.value.value)])
                  ELSE var_types
           /\ todo' = generic_visit(node) \o Tail(todo)
    /\ UNCHANGED <<tree, custom_function, pc, events, current_function,
                   function_stack, var_types_stack, visited, output, result, runs>>

\* the event record visit_Call builds
event_record(node, event_name, source, vt, function_name) ==
    [eventName |-> event_name,
     source |-> source,
     properties |-> extract_properties(node, source, vt),
     filePath |-> FilePath,
     line |-> node.lineno,
     functionName |-> function_name]

\* self.events after the first statements of visit_Call on node
events_after_call(node, custom, vt, function_name, evs) ==
    LET source == detect_source(node, custom)
        event_name == extract_event_name(node, source)
    IN  IF source # NoSource /\ Truthy(event_name)
        THEN Append(evs, event_record(node, event_name, source, vt, function_name))
        ELSE evs

visit_Call ==
    /\ pc = "walk" /\ todo # <<>> /\ Head(todo).kind = "Call"
    /\ LET node == Head(todo)
       IN  /\ events' = events_after_call(node, custom_function, var_types,
                                          current_function, events)
           /\ visited' = Append(visited, node.lineno)
           /\ todo' = generic_visit(node) \o Tail(todo)
    /\ UNCHANGED <<tree, custom_function, pc, current_function, function_stack,
                   var_types, var_types_stack, output, result, runs>>

(***************************************************************************)
(* analyze_python_code: json.dumps(visitor.events), or json.dumps([]) when *)
(* anything raised                                                         *)
(***************************************************************************)
\* json.dumps accepts str, int, float, bool and None, as values and as keys
json_serializable(value) == value.t \in {"str", "int", "float", "bool", "NoneType"}

\* the JSON text of a Python scalar
json_value(value) ==
    CASE value.t = "str" -> [json |-> "string", text |-> value.v]
      [] value.t \in {"int", "float"} -> [json |-> "number", text |-> value.v]
      [] value.t = "bool" ->
            [json |-> "literal", text |-> IF value.v = "True" THEN "true" ELSE "false"]
      [] OTHER -> [json |-> "literal", text |-> "null"]

\* the JSON object key json.dumps writes for a dict key
json_key(value) == json_value(value).text

RECURSIVE json_properties(_), json_descriptor(_), properties_serializable(_)

json_descriptor(desc) ==
    IF "properties" \in DOMAIN desc
    THEN [type |-> desc.type, properties |-> json_properties(desc.properties)]
    ELSE IF "items" \in DOMAIN desc
    THEN [type |-> desc.type, items |-> json_descriptor(desc.items)]
    ELSE [type |-> desc.type]

json_properties(properties) ==
    [i \in 1..Len(properties) |->
        <<json_key(properties[i][1]), json_descriptor(properties[i][2])>>]

properties_serializable(properties) ==
    \A i \in 1..Len(properties) :
        /\ json_serializable(properties[i][1])
        /\ "properties" \in DOMAIN properties[i][2]
              => properties_serializable(properties[i][2].properties)

json_event(e) ==
    [eventName |-> json_value(e.eventName),
     source |-> e.source,
     properties |-> json_properties(e.properties),
     filePath |-> e.filePath,
     line |-> e.line,
     functionName |-> e.functionName]

\* a variant that looks at the event names only
json_dumps_raises_names_only(evs) ==
    \E i \in 1..Len(evs) : ~json_serializable(evs[i].eventName)

json_dumps_raises(evs) ==
    \E i \in 1..Len(evs) :
        \/ ~json_serializable(evs[i].eventName)
        \/ ~properties_serializable(evs[i].properties)

\* the return of analyze_python_code once visitor.visit(tree) has returned
\* ast.parse(code) raises on source that does not parse
SyntaxError == [kind |-> "SyntaxError"]

\* runs once this call has returned out
returned(out) ==
    Append(runs, [tree |-> tree, custom |-> custom_function, output |-> out])

\* tree = ast.parse(code) raised: "Return empty array on parse errors"
analyze_parse_error ==
    /\ pc = "start" /\ tree = SyntaxError
    /\ output' = <<>>
    /\ runs' = returned(<<>>)
    /\ pc' = "done"
    /\ UNCHANGED <<tree, custom_function, todo, events, current_function,
                   function_stack, var_types, var_types_stack, visited, result>>

\* a variant whose visitor shares its events list with the visitor before
analyze_visit_shared_events ==
    /\ pc = "start" /\ tree # SyntaxError
    /\ events' = events
    /\ current_function' = "global"
    /\ function_stack' = <<>>
    /\ var_types' = EmptyTypes
    /\ var_types_stack' = <<>>
    /\ visited' = <<>>
    /\ todo' = visit(tree)
    /\ pc' = "walk"
    /\ UNCHANGED <<tree, custom_function, output, result, runs>>

\* visitor = TrackingVisitor(filepath, custom_function); visitor.visit(tree)
analyze_visit ==
    /\ pc = "start" /\ tree # SyntaxError
    /\ events' = <<>>
    /\ current_function' = "global"
    /\ function_stack' = <<>>
    /\ var_types' = EmptyTypes
    /\ var_types_stack' = <<>>
    /\ visited' = <<>>
    /\ todo' = visit(tree)
    /\ pc' = "walk"
    /\ UNCHANGED <<tree, custom_function, output, result, runs>>

analyze_return ==
    /\ pc = "walk" /\ todo = <<>>
    /\ LET returns == IF json_dumps_raises(events)
                      THEN <<>>
                      ELSE [i \in 1..Len(events) |-> json_event(events[i])]
       IN  output' = returns /\ runs' = returned(returns)
    /\ pc' = "done"
    /\ UNCHANGED <<tree, custom_function, todo, events, current_function,
                   function_stack, var_types, var_types_stack, visited, result>>

(***************************************************************************)
(* Inputs: the syntax trees the analysis is run on                         *)
(***************************************************************************)
\* nesting depth of definitions around a call
MaxDepth == 3
\* entries of a property mapping
MaxKeys == 2
\* elements of a list or tuple literal
MaxElts == 3

SeqsUpTo(S, n) == UNION {[1..k -> S] : k \in 0..n}

MethodCall(lineno, obj, method, args, keywords) ==
    Call(lineno, Attribute(Name(obj), method), args, keywords)

FuncCall(lineno, name, args, keywords) == Call(lineno, Name(name), args, keywords)

\* a mapping literal from a sequence of <<key node, value node>> entries
DictOf(entries) ==
    Dict([i \in 1..Len(entries) |-> entries[i][1]],
         [i \in 1..Len(entries) |-> entries[i][2]])

K(s) == Constant(StrV(s))

\* a well-formed tracking call used where another expression is expected
InnerCall(lineno) ==
    MethodCall(lineno, "mp", "track", <<K("u2"), K("Inner"), DictOf(<<>>)>>, <<>>)

\* expressions in the event-name position
NameArgs ==
    { K("Signed Up"), K(""), Constant(IntV("42")), Constant(IntV("0")),
      Constant(FloatV("1.5")), Constant(PyTrue), Constant(PyFalse), Constant(PyNone),
      Constant(BytesV("evt")), Constant(PyEllipsis),
      Name("event_name"),
      Attribute(Name("Events"), "SIGNUP"),
      FuncCall(60, "make_name", <<InnerCall(61)>>, <<>>),
      Other("JoinedStr", <<K("evt_"), Other("FormattedValue", <<Name("kind")>>)>>),
      Other("BinOp", <<K("evt_"), Name("suffix")>>) }

\* expressions in the first positional argument
IdArgs ==
    { K("u1"), K(""), Constant(PyNone), Constant(IntV("0")), Constant(IntV("7")),
      Name("user_id"),
      Attribute(Name("user"), "id"),
      FuncCall(70, "get_id", <<>>, <<>>),
      Other("JoinedStr", <<K("u_"), Other("FormattedValue", <<Name("n")>>)>>) }

\* entries of a property mapping
Entries ==
    { <<K("plan"), K("pro")>>,
      <<K("price"), Constant(FloatV("9.99"))>>,
      <<K("trial"), Constant(PyTrue)>>,
      <<K("amount"), Name("amount")>>,
      <<K("ts"), FuncCall(50, "now", <<>>, <<>>)>>,
      <<K("plan"), Constant(IntV("1"))>>,
      <<K("$process_person_profile"), Constant(PyFalse)>>,
      <<K("$process_person_profile"), Constant(PyTrue)>>,
      <<K("$set"), DictOf(<< <<K("plan"), K("pro")>>,
                            <<K("ts"), FuncCall(51, "now", <<>>, <<>>)>> >>)>>,
      <<K("$set_once"), DictOf(<< <<K("seen"), Constant(PyTrue)>> >>)>>,
      <<K("$set"), Name("traits")>>,
      <<K("user_id"), Constant(IntV("5"))>>,
      <<K("distinct_id"), Constant(IntV("5"))>>,
      <<Name("key"), K("v")>>,
      <<K("items"), List(<<Constant(IntV("1")), K("a")>>)>>,
      <<K("nested"), DictOf(<< <<K("a"), Constant(IntV("1"))>> >>)>> }

Bags == {DictOf(es) : es \in SeqsUpTo(Entries, MaxKeys)}

BaseBag == DictOf(<< <<K("plan"), K("pro")>>, <<K("price"), Constant(FloatV("9.99"))>> >>)

\* property bags that are not mapping literals
NonDictBags == {Name("props"), FuncCall(52, "dict", <<>>, <<>>), Constant(PyNone)}

StdLibs == { <<"analytics", "track">>, <<"mp", "track">>,
             <<"rudder_analytics", "track">>, <<"posthog", "capture">> }

\* library.track(user_id, 'event_name', {...}) and posthog.capture likewise
StdCalls ==
    {MethodCall(1, l[1], l[2], <<i, K("Signed Up"), BaseBag>>, <<>>) :
        l \in StdLibs, i \in IdArgs}
    \cup {MethodCall(1, l[1], l[2], <<K("u1"), n, BaseBag>>, <<>>) :
        l \in StdLibs, n \in NameArgs}
    \cup {MethodCall(1, l[1], l[2], <<K("u1"), K("Signed Up"), b>>, <<>>) :
        l \in StdLibs, b \in NonDictBags}
    \cup {MethodCall(1, l[1], l[2], SubSeq(<<K("u1"), K("Signed Up")>>, 1, k), <<>>) :
        l \in StdLibs, k \in 0..2}

BagCalls ==
    {MethodCall(1, l[1], l[2], <<K("u1"), K("Signed Up"), b>>, <<>>) :
        l \in {<<"analytics", "track">>, <<"posthog", "capture">>}, b \in Bags}
    \cup {MethodCall(1, "posthog", "capture", <<K("u1")>>,
                     <<keyword("event", K("Signed Up")), keyword("properties", b)>>) :
        b \in Bags}

\* posthog.capture('distinct_id', event='event_name', properties={...})
PosthogKeywordCalls ==
    {MethodCall(1, "posthog", "capture", <<i>>,
                <<keyword("event", K("Signed Up")), keyword("properties", BaseBag)>>) :
        i \in IdArgs}
    \cup {MethodCall(1, "posthog", "capture", <<K("u1")>>,
                     <<keyword("event", n), keyword("properties", BaseBag)>>) :
        n \in NameArgs}
    \cup {MethodCall(1, "posthog", "capture", <<K("u1"), p>>, <<keyword("event", n)>>) :
        p \in {K("Positional"), Name("event_name")},
        n \in {K("Keyword"), Name("event_name")}}
    \cup {MethodCall(1, "posthog", "capture", <<K("u1"), K("Signed Up"), b>>,
                     <<keyword("properties", c)>>) :
        b \in {DictOf(<< <<K("$process_person_profile"), Constant(PyFalse)>> >>)},
        c \in {Name("props"), BaseBag}}

BaseEvent(lineno, keywords) == FuncCall(lineno, "BaseEvent", <<>>, keywords)

\* client.track(BaseEvent(event_type='event_name', ...))
AmplitudeCalls ==
    {MethodCall(1, r, "track",
                <<BaseEvent(2, <<keyword("event_type", n), keyword("user_id", Name("uid")),
                                 keyword("event_properties", BaseBag)>>)>>, <<>>) :
        r \in {"client", "amp"}, n \in NameArgs}
    \cup {MethodCall(1, "client", "track",
                     <<BaseEvent(2, <<keyword("event_type", K("Clicked")),
                                      keyword("user_id", i)>>)>>, <<>>) :
        i \in IdArgs}
    \cup {MethodCall(1, "client", "track",
                     <<BaseEvent(2, <<keyword("event_type", K("Clicked")),
                                      keyword("event_properties", b)>>)>>, <<>>) :
        b \in {DictOf(<<e>>) : e \in Entries} \cup NonDictBags}
    \cup {MethodCall(1, "client", "track", <<BaseEvent(2, <<>>)>>, <<>>)}

StructuredEvent(lineno, keywords) == FuncCall(lineno, "StructuredEvent", <<>>, keywords)

\* tracker.track(StructuredEvent(action='event_name', ...)), tracker.track(event)
\* and the direct Snowplow functions
SnowplowMethodCalls ==
    {MethodCall(1, r, "track",
                <<StructuredEvent(2, <<keyword("category", Name("category")),
                                       keyword("action", n),
                                       keyword("label", K("web-shop")),
                                       keyword("property_", K("pcs")),
                                       keyword("value", Constant(FloatV("2.5")))>>)>>,
                <<>>) :
        r \in {"tracker", "snow"}, n \in NameArgs}
    \cup {MethodCall(1, r, "track", <<Name("event")>>, <<>>) : r \in {"tracker", "snow"}}

\* keyword arguments of StructuredEvent: literals, a name, values of no
\* inferable type, and a mapping unpacked into the call
StructuredKeywords ==
    { keyword("action", K("add-to-basket")),
      keyword("category", Name("category")),
      keyword("label", K("web-shop")),
      keyword("property_", K("pcs")),
      keyword("value", Constant(FloatV("2.5"))),
      keyword("ts", FuncCall(53, "now", <<>>, <<>>)),
      keyword("sku", Attribute(Name("item"), "sku")),
      keyword("", Name("extra")) }

\* tracker.track(StructuredEvent(...)) with up to MaxKeywords keywords, no
\* keyword given twice
MaxKeywords == 3

SnowplowKeywordCalls ==
    {MethodCall(1, "tracker", "track", <<StructuredEvent(2, ks)>>, <<>>) :
        ks \in {s \in SeqsUpTo(StructuredKeywords, MaxKeywords) :
                   \A i, j \in 1..Len(s) : i # j => s[i] # s[j]}}

SnowplowFunctionCalls ==
    {FuncCall(1, f, <<K("shop"), K("add-to-basket"), BaseBag>>, <<>>) :
        f \in {"trackStructEvent", "buildStructEvent"}}
    \cup {FuncCall(1, "trackStructEvent",
                   <<DictOf(<< <<K("category"), K("shop")>>,
                               <<K("action"), K("add-to-basket")>> >>)>>, <<>>)}
    \cup {FuncCall(1, "snowplow",
                   <<K(op), DictOf(<< <<K("category"), K("shop")>>,
                                      <<K("action"), K("add-to-basket")>> >>)>>, <<>>) :
        op \in {"trackStructEvent", "trackPageView"}}
    \cup {FuncCall(1, f, <<StructuredEvent(2, <<keyword("action", K("add-to-basket")),
                                                 keyword("label", K("web-shop"))>>)>>,
                   <<>>) :
            f \in {"trackStructEvent", "buildStructEvent", "snowplow"}}
    \cup {FuncCall(1, "snowplow",
                   <<K("trackStructEvent"),
                     StructuredEvent(2, <<keyword("action", K("add-to-basket"))>>)>>, <<>>)}

\* customFunction('event_name', {...})
CustomCalls ==
    {FuncCall(1, "customTrackFunction", <<n, BaseBag>>, <<>>) : n \in NameArgs}
    \cup {FuncCall(1, "customTrackFunction", <<K("Custom Event"), b>>, <<>>) :
        b \in {DictOf(<<e>>) : e \in Entries} \cup NonDictBags}
    \cup {FuncCall(1, "customTrackFunction", SubSeq(<<K("Custom Event")>>, 1, k), <<>>) :
        k \in 0..1}

\* property mappings that give the identity key k themselves: alone, after
\* or before another key, twice, and with values of each kind of expression
IdentityBags(k) ==
    { DictOf(<< <<K(k), Constant(IntV("5"))>> >>),
      DictOf(<< <<K("plan"), K("pro")>>, <<K(k), Constant(IntV("5"))>> >>),
      DictOf(<< <<K(k), Constant(IntV("5"))>>, <<K("plan"), K("pro")>> >>),
      DictOf(<< <<K(k), Constant(IntV("5"))>>, <<K(k), Constant(PyTrue)>> >>),
      DictOf(<< <<K(k), FuncCall(54, "current_user", <<>>, <<>>)>> >>),
      DictOf(<< <<K("plan"), K("pro")>>, <<K(k), Name("uid")>> >>),
      DictOf(<< <<K(k), DictOf(<< <<K("a"), Constant(IntV("1"))>> >>)>> >>) }

\* calls of each library with and without an identity argument whose
\* property mapping holds the identity key of the library
IdentityKeyCalls ==
    {MethodCall(1, l[1], l[2], <<i, K("Signed Up"), b>>, <<>>) :
        l \in {<<"analytics", "track", "user_id">>, <<"rudder_analytics", "track", "user_id">>},
        i \in {K("u1"), Constant(PyNone), Name("user_id")},
        b \in IdentityBags("user_id")}
    \cup {MethodCall(1, l[1], l[2], <<i, K("Signed Up"), b>>, <<>>) :
        l \in {<<"mp", "track">>, <<"posthog", "capture">>},
        i \in {K("u1"), Constant(PyNone), Name("user_id")},
        b \in IdentityBags("distinct_id")}
    \cup {MethodCall(1, "client", "track",
                     <<BaseEvent(2, ks \o <<keyword("event_type", K("Clicked")),
                                           keyword("event_properties", b)>>)>>, <<>>) :
        ks \in {<<>>, <<keyword("user_id", K("u1"))>>, <<keyword("user_id", Name("uid"))>>},
        b \in IdentityBags("user_id")}

\* receivers, methods and first arguments of the method-call shape
ShapeCalls ==
    {Call(1, Attribute(r, m), <<a, K("Signed Up"), BaseBag>>, <<>>) :
        r \in {Name("analytics"), Name("mp"), Name("rudder_analytics"), Name("posthog"),
               Name("client"), Name("tracker"), Attribute(Name("self"), "client"),
               FuncCall(3, "get_client", <<>>, <<>>)},
        m \in {"track", "capture", "identify"},
        a \in {K("u1"), Name("event"),
               BaseEvent(2, <<keyword("event_type", K("Clicked"))>>),
               StructuredEvent(2, <<keyword("action", K("add-to-basket"))>>)}}

CustomNames == {"", "customTrackFunction", "trackStructEvent"}

NoArgs == arguments(<<>>, <<>>, <<>>)

Stmt(call) == Expr(call)

\* the module that holds one call as an expression statement
OneCall(call) == Module(<<Stmt(call)>>)

\* one well-formed call per library and shape, at line lineno
GoodCalls(lineno) ==
    { MethodCall(lineno, "analytics", "track", <<K("u1"), K("Signed Up"), BaseBag>>, <<>>),
      MethodCall(lineno, "mp", "track", <<K("u1"), K("Signed Up"), BaseBag>>, <<>>),
      MethodCall(lineno, "rudder_analytics", "track",
                 <<K("u1"), K("Signed Up"), BaseBag>>, <<>>),
      MethodCall(lineno, "posthog", "capture", <<K("u1"), K("Signed Up"), BaseBag>>, <<>>),
      MethodCall(lineno, "posthog", "capture", <<K("u1")>>,
                 <<keyword("event", K("Signed Up")), keyword("properties", BaseBag)>>),
      MethodCall(lineno, "client", "track",
                 <<BaseEvent(lineno + 1,
                             <<keyword("event_type", K("Signed Up")),
                               keyword("event_properties", BaseBag)>>)>>, <<>>),
      MethodCall(lineno, "tracker", "track",
                 <<StructuredEvent(lineno + 1,
                                   <<keyword("action", K("Signed Up")),
                                     keyword("plan", K("pro")),
                                     keyword("price", Constant(FloatV("9.99")))>>)>>,
                 <<>>),
      FuncCall(lineno, "trackStructEvent", <<K("shop"), K("Signed Up"), BaseBag>>, <<>>),
      FuncCall(lineno, "customTrackFunction", <<K("Signed Up"), BaseBag>>, <<>>) }

\* the places a call c can stand in
Placements(c) ==
    { Module(<<FunctionDef("handler", NoArgs, <<Stmt(c)>>, <<>>)>>),
      Module(<<ClassDef("Service", <<FunctionDef("method", NoArgs, <<Stmt(c)>>, <<>>)>>,
                        <<>>)>>),
      Module(<<ClassDef("Service", <<Stmt(c)>>, <<>>)>>),
      Module(<<Stmt(FuncCall(20, "print", <<c>>, <<>>))>>),
      Module(<<Stmt(MethodCall(20, "analytics", "track",
                               <<K("u1"), K("Outer"), DictOf(<< <<K("inner"), c>> >>)>>,
                               <<>>))>>),
      Module(<<Stmt(MethodCall(20, "analytics", "track",
                               <<K("u1"), Name("outer_name"), c>>, <<>>))>>),
      Module(<<Assign(<<Name("sent")>>, c)>>),
      Module(<<FunctionDef("handler", NoArgs,
                           <<Other("Return", <<Other("Lambda", <<NoArgs, c>>)>>)>>, <<>>)>>) }

DefKinds == {"FunctionDef", "AsyncFunctionDef", "ClassDef"}

\* the definition of kind k at nesting level d (the name tells kind and level)
Def(k, d, body) ==
    CASE k = "FunctionDef" -> FunctionDef("f" \o ToString(d), NoArgs, body, <<>>)
      [] k = "AsyncFunctionDef" -> AsyncFunctionDef("g" \o ToString(d), NoArgs, body, <<>>)
      [] OTHER -> ClassDef("C" \o ToString(d), body, <<>>)

ScopeCall(lineno, name) ==
    MethodCall(lineno, "analytics", "track", <<K("u1"), K(name), DictOf(<<>>)>>, <<>>)

RECURSIVE Nest(_)
\* bodies with d definitions nested in one another around a call at line 1,
\* each definition followed or not by a call in the same body
Nest(d) ==
    IF d = 0 THEN {<<Stmt(ScopeCall(1, "Inner"))>>}
    ELSE {<<Def(k, d, b)>> \o t :
             k \in DefKinds, b \in Nest(d - 1),
             t \in {<<>>, <<Stmt(ScopeCall(10 + d, "After"))>>}}

ScopeTrees == {Module(b) : b \in UNION {Nest(d) : d \in 1..MaxDepth}}

\* annotations of a parameter or variable
Annotations ==
    { NoNode, Name("int"), Name("float"), Name("str"), Name("bool"),
      Constant(PyNone), Name("NoneType"), Name("Decimal"),
      Subscript(Name("List"), Name("str")),
      Subscript(Name("List"), Name("Decimal")),
      Subscript(Name("list"), Name("int")),
      Subscript(Name("List"), Subscript(Name("List"), Name("int"))),
      Subscript(Name("Tuple"), Tuple(<<Name("int"), Name("str")>>)),
      Subscript(Name("Dict"), Tuple(<<Name("str"), Name("int")>>)),
      Subscript(Name("Optional"), Name("int")),
      Attribute(Name("typing"), "Any") }

\* statements between the head of a function and the call in its body
Rebindings ==
    { <<>>,
      <<Assign(<<Name("x")>>, K("text"))>>,
      <<Assign(<<Name("x")>>, FuncCall(30, "compute", <<>>, <<>>))>>,
      <<Assign(<<Name("x")>>, List(<<Constant(IntV("1"))>>))>>,
      <<Assign(<<Name("x")>>, Name("y"))>>,
      <<Assign(<<Name("x"), Name("y")>>, Constant(IntV("1")))>>,
      <<Assign(<<Name("x"), Name("y")>>, K("text"))>>,
      <<Assign(<<Tuple(<<Name("x"), Name("y")>>)>>, Name("pair"))>>,
      <<AnnAssign(Name("x"), Name("bool"), K("text"))>>,
      <<AnnAssign(Name("x"), Name("bool"), NoNode)>>,
      <<AugAssign(Name("x"), Constant(IntV("1")))>>,
      <<Assign(<<Name("other")>>, K("text"))>> }

\* the argument lists that declare the one parameter x: a in each kind
ParamLists(a) ==
    { arguments(<<>>, <<arg("x", a)>>, <<>>),
      arguments(<<>>, <<arg("self", NoNode), arg("x", a)>>, <<>>),
      arguments(<<arg("x", a)>>, <<>>, <<>>),
      arguments(<<>>, <<>>, <<arg("x", a)>>) }

\* the call that passes x as a property value
UseX(lineno) ==
    MethodCall(lineno, "analytics", "track",
               <<K("u1"), K("Used"),
                 DictOf(<< <<K("x"), Name("x")>>, <<K("xs"), List(<<Name("x")>>)>> >>)>>,
               <<>>)

AnnotationTrees ==
    {Module(<<[kind |-> k, name |-> "handler", args |-> ps,
               body |-> r \o <<Stmt(UseX(5))>>, decorator_list |-> <<>>],
              Stmt(UseX(9))>>) :
        k \in {"FunctionDef", "AsyncFunctionDef"},
        ps \in UNION {ParamLists(a) : a \in Annotations},
        r \in Rebindings}

\* the definition of kind k named inner (Inner for a class)
InnerDef(k, ps, body) ==
    IF k = "ClassDef" THEN ClassDef("Inner", body, <<>>)
    ELSE [kind |-> k, name |-> "inner", args |-> ps, body |-> body,
          decorator_list |-> <<>>]

\* the module whose scope of kind e has this body
Enclose(e, body) ==
    CASE e = "Module" -> Module(body)
      [] e = "ClassDef" -> Module(<<ClassDef("Outer", body, <<>>)>>)
      [] e = "FunctionDef" -> Module(<<FunctionDef("outer", NoArgs, body, <<>>)>>)
      [] OTHER ->
            Module(<<FunctionDef("outer", arguments(<<>>, <<arg("x", Name("int"))>>, <<>>),
                                 body, <<>>)>>)

\* x bound or not in a scope, a definition in that scope that binds x or
\* not and uses it, and a use of x after the definition
ShadowTrees ==
    {Enclose(e, ob \o <<InnerDef(k, ps, ib \o <<Stmt(UseX(5))>>), Stmt(UseX(9))>>) :
        e \in {"Module", "ClassDef", "FunctionDef", "FunctionDef with x"},
        ob \in {<<>>, <<Assign(<<Name("x")>>, K("text"))>>,
                <<AnnAssign(Name("x"), Name("int"), NoNode)>>},
        k \in DefKinds,
        ps \in {NoArgs, arguments(<<>>, <<arg("x", Name("str"))>>, <<>>)},
        ib \in {<<>>, <<Assign(<<Name("x")>>, Constant(IntV("1")))>>,
                <<AnnAssign(Name("x"), Name("bool"), NoNode)>>}}

\* at module level: a statement that binds x or not, one of the statements
\* of Rebindings, and a use of x
RebindTrees ==
    {Module(first \o second \o <<Stmt(UseX(5))>>) :
        first \in {<<>>, <<Assign(<<Name("x")>>, K("text"))>>,
                   <<AnnAssign(Name("x"), Name("int"), NoNode)>>,
                   <<AnnAssign(Name("x"), Name("float"), Constant(FloatV("1.5")))>>},
        second \in Rebindings}

\* literal scalars of every kind
Literals ==
    { StrV("pro"), StrV(""), IntV("1"), IntV("0"), FloatV("9.99"), PyTrue, PyFalse,
      PyNone, BytesV("raw"), PyEllipsis }

SegmentCall(lineno, name, bag) ==
    MethodCall(lineno, "analytics", "track", <<K("u1"), name, bag>>, <<>>)

\* property mappings with a literal of each kind as value and as key, and a
\* mapping unpacked into the literal (a key that is None)
LiteralCalls ==
    {SegmentCall(1, K("Signed Up"), DictOf(<< <<K("v"), Constant(x)>> >>)) : x \in Literals}
    \cup {SegmentCall(1, K("Signed Up"),
                      DictOf(<< <<K("v"), DictOf(<< <<K("w"), Constant(x)>> >>)>> >>)) :
            x \in Literals}
    \cup {SegmentCall(1, K("Signed Up"),
                      DictOf(<< <<Constant(x), K("v")>>, <<K("plan"), K("pro")>> >>)) :
            x \in Literals}
    \cup {SegmentCall(1, K("Signed Up"),
                      DictOf(<< <<NoNode, Name("extra")>>, <<K("plan"), K("pro")>> >>))}

\* a call followed by a well-formed call of another library
SiblingTrees ==
    {Module(<<Stmt(c), Stmt(InnerCall(90))>>) : c \in StdCalls \cup LiteralCalls}

TrackAt(lineno) == SegmentCall(lineno, K("Signed Up"), DictOf(<<>>))

\* calls in the places a definition and an expression have for them, the
\* line numbers following the source text
OrderTrees ==
    { Module(<<Stmt(TrackAt(1)), Stmt(TrackAt(2)), Stmt(TrackAt(3))>>),
      Module(<<Stmt(SegmentCall(1, K("Outer"),
                                DictOf(<< <<K("a"), TrackAt(2)>>, <<K("b"), TrackAt(3)>> >>))),
               Stmt(TrackAt(4))>>),
      Module(<<Stmt(SegmentCall(1, TrackAt(2), TrackAt(3))), Stmt(TrackAt(4))>>),
      Module(<<Stmt(FuncCall(1, "print", <<TrackAt(2)>>,
                             <<keyword("sep", TrackAt(3)), keyword("end", TrackAt(4))>>))>>),
      Module(<<Stmt(List(<<TrackAt(1), Tuple(<<TrackAt(2), TrackAt(3)>>), TrackAt(4)>>))>>),
      Module(<<Stmt(DictOf(<< <<TrackAt(1), TrackAt(2)>>, <<TrackAt(3), TrackAt(4)>> >>))>>),
      Module(<<Stmt(DictOf(<< <<K("a"), TrackAt(1)>>, <<TrackAt(2), K("b")>> >>))>>),
      Module(<<FunctionDef("handler", NoArgs, <<Stmt(TrackAt(3))>>, <<TrackAt(1)>>),
               Stmt(TrackAt(4))>>),
      Module(<<ClassDef("Service", <<Stmt(TrackAt(3))>>, <<TrackAt(1)>>)>>),
      Module(<<FunctionDef("handler", NoArgs,
                           <<Stmt(TrackAt(2)),
                             FunctionDef("inner", NoArgs, <<Stmt(TrackAt(4))>>, <<>>),
                             Stmt(TrackAt(5))>>, <<>>),
               Assign(<<Name("sent")>>, TrackAt(7))>>) }

MethodCalls ==
    StdCalls \cup BagCalls \cup PosthogKeywordCalls \cup AmplitudeCalls
    \cup SnowplowMethodCalls \cup ShapeCalls \cup LiteralCalls \cup SnowplowKeywordCalls
    \cup IdentityKeyCalls

FunctionCalls == SnowplowFunctionCalls \cup CustomCalls

Inputs ==
    {[tree |-> OneCall(c), custom |-> ""] : c \in MethodCalls}
    \cup {[tree |-> OneCall(c), custom |-> f] : c \in FunctionCalls, f \in CustomNames}
    \cup {[tree |-> t, custom |-> "customTrackFunction"] :
            t \in UNION {Placements(c) : c \in GoodCalls(1)}}
    \cup {[tree |-> t, custom |-> ""] :
            t \in ScopeTrees \cup AnnotationTrees \cup SiblingTrees \cup OrderTrees
                  \cup ShadowTrees \cup RebindTrees}
    \cup {[tree |-> SyntaxError, custom |-> ""]}

(***************************************************************************)
(* Specification                                                           *)
(***************************************************************************)
Init ==
    /\ \E inp \in Inputs : tree = inp.tree /\ custom_function = inp.custom
    /\ pc = "start"
    /\ todo = <<>>
    /\ events = <<>>
    /\ current_function = "global"
    /\ function_stack = <<>>
    /\ var_types = EmptyTypes
    /\ var_types_stack = <<>>
    /\ visited = <<>>
    /\ output = <<>>
    /\ result = NoType
    /\ runs = <<>>

Next ==
    \/ analyze_parse_error
    \/ analyze_visit
    \/ visit_FunctionDef
    \/ visit_ClassDef
    \/ restore_context
    \/ visit_AnnAssign
    \/ visit_Assign
    \/ visit_Call
    \/ analyze_return

Spec == Init /\ [][Next]_vars

(***************************************************************************)
(* analyze_python_code called again and again by one process               *)
(***************************************************************************)
\* calls of analyze_python_code in one process
MaxRuns == 3

\* what the calls are given
RunInputs ==
    { [tree |-> Module(<<FunctionDef("handler",
                                     arguments(<<>>, <<arg("x", Name("int"))>>, <<>>),
                                     <<Stmt(UseX(5))>>, <<>>),
                         Stmt(UseX(9))>>),
       custom |-> ""],
      [tree |-> Module(<<ClassDef("Service",
                                  <<AnnAssign(Name("x"), Name("str"), NoNode),
                                    Assign(<<Name("y")>>, Constant(IntV("1"))),
                                    Stmt(UseX(5))>>, <<>>)>>),
       custom |-> ""],
      [tree |-> OneCall(FuncCall(1, "customTrackFunction", <<K("Custom Event"), BaseBag>>,
                                 <<>>)),
       custom |-> "customTrackFunction"],
      [tree |-> OneCall(FuncCall(1, "customTrackFunction", <<K("Custom Event"), BaseBag>>,
                                 <<>>)),
       custom |-> ""],
      [tree |-> OneCall(SegmentCall(1, Constant(BytesV("evt")), BaseBag)), custom |-> ""],
      [tree |-> SyntaxError, custom |-> ""] }

InitRuns ==
    /\ \E inp \in RunInputs : tree = inp.tree /\ custom_function = inp.custom
    /\ pc = "start"
    /\ todo = <<>>
    /\ events = <<>>
    /\ current_function = "global"
    /\ function_stack = <<>>
    /\ var_types = EmptyTypes
    /\ var_types_stack = <<>>
    /\ visited = <<>>
    /\ output = <<>>
    /\ result = NoType
    /\ runs = <<>>

\* the caller calls analyze_python_code once more; the visitor of the call
\* before is whatever that call left
analyze_again ==
    /\ pc = "done" /\ Len(runs) < MaxRuns
    /\ \E inp \in RunInputs : tree' = inp.tree /\ custom_function' = inp.custom
    /\ pc' = "start"
    /\ UNCHANGED <<todo, events, current_function, function_stack, var_types,
                   var_types_stack, visited, output, result, runs>>

NextRuns ==
    \/ Next
    \/ analyze_again

SpecRuns == InitRuns /\ [][NextRuns]_vars

(***************************************************************************)
(* The analysis of one sequence literal on its own                         *)
(***************************************************************************)
\* elements of a list or tuple literal
Elements ==
    { K("a"), Constant(IntV("1")), Constant(FloatV("1.5")), Constant(PyTrue),
      Constant(PyNone), Constant(PyEllipsis),
      Name("n"), Name("xs"), Name("unbound"),
      DictOf(<<>>), List(<<Constant(IntV("1"))>>), FuncCall(1, "f", <<>>, <<>>) }

SequenceLiterals ==
    {List(es) : es \in SeqsUpTo(Elements, MaxElts)}
    \cup {Tuple(es) : es \in SeqsUpTo(Elements, MaxElts)}

\* var_types in the body of def handler(n: int, xs: List[int])
HandlerTypes ==
    parameter_types(<<arg("n", Name("int")),
                      arg("xs", Subscript(Name("List"), Name("int")))>>, EmptyTypes)

InitInfer ==
    /\ tree \in SequenceLiterals
    /\ var_types = HandlerTypes
    /\ pc = "start"
    /\ custom_function = ""
    /\ todo = <<>>
    /\ events = <<>>
    /\ current_function = "handler"
    /\ function_stack = <<"global">>
    /\ var_types_stack = <<EmptyTypes>>
    /\ visited = <<>>
    /\ output = <<>>
    /\ result = NoType
    /\ runs = <<>>

call_infer_sequence_item_type ==
    /\ pc = "start"
    /\ result' = infer_sequence_item_type(tree, var_types)
    /\ pc' = "done"
    /\ UNCHANGED <<tree, custom_function, todo, events, current_function,
                   function_stack, var_types, var_types_stack, visited, output,
                   runs>>

SpecInfer == InitInfer /\ [][call_infer_sequence_item_type]_vars

(***************************************************************************)
(* What the claims speak of, read off the syntax tree                      *)
(***************************************************************************)
Range(s) == {s[i] : i \in 1..Len(s)}

\* the walk of a parsed module has returned
Done == pc = "done" /\ tree.kind = "Module"

RECURSIVE CallsIn(_)
\* the Call nodes of a subtree
CallsIn(node) ==
    (IF node.kind = "Call" THEN {node} ELSE {})
    \cup UNION {CallsIn(c) : c \in Range(Children(node))}

\* the places in events of the records made for call c (calls of one tree
\* stand on different lines)
RecordsOf(c) == {i \in 1..Len(events) : events[i].line = c.lineno}

Positional(c, n) == IF Len(c.args) >= n THEN c.args[n] ELSE NoNode

KeywordValue(keywords, name) ==
    IF \E i \in 1..Len(keywords) : keywords[i].arg = name
    THEN keywords[CHOOSE i \in 1..Len(keywords) :
                     /\ keywords[i].arg = name
                     /\ \A j \in 1..(i - 1) : keywords[j].arg # name].value
    ELSE NoNode

IsConstructorCall(node, constructor) ==
    node.kind = "Call" /\ node.func = Name(constructor)

\* the library whose documented call shape c has, "none" if it has none
Library(c) ==
    IF c.func.kind = "Attribute" /\ c.func.value.kind = "Name"
    THEN LET pair == <<c.func.value.id, c.func.attr>>
         IN  IF pair = <<"analytics", "track">> THEN "segment"
             ELSE IF pair = <<"mp", "track">> THEN "mixpanel"
             ELSE IF pair = <<"rudder_analytics", "track">> THEN "rudderstack"
             ELSE IF pair = <<"posthog", "capture">> THEN "posthog"
             ELSE IF pair[2] = "track" /\ IsConstructorCall(Positional(c, 1), "BaseEvent")
             THEN "amplitude"
             ELSE IF /\ pair[2] = "track"
                     /\ \/ IsConstructorCall(Positional(c, 1), "StructuredEvent")
                        \/ pair[1] = "tracker" /\ Positional(c, 1).kind = "Name"
             THEN "snowplow"
             ELSE "none"
    ELSE IF c.func.kind = "Name"
    THEN IF c.func.id \in {"trackStructEvent", "buildStructEvent"} THEN "snowplow"
         ELSE IF c.func.id = "snowplow" /\ Positional(c, 1) = K("trackStructEvent")
         THEN "snowplow"
         ELSE IF custom_function # "" /\ c.func.id = custom_function THEN "custom"
         ELSE "none"
    ELSE "none"

\* c is <receiver>.track(StructuredEvent(...))
IsStructuredEventCall(c) ==
    c.func.kind = "Attribute" /\ IsConstructorCall(Positional(c, 1), "StructuredEvent")

\* the expression in the event-name position of library lib, NoNode if absent
EventNamePosition(c, lib) ==
    IF lib \in {"segment", "rudderstack", "mixpanel"} THEN Positional(c, 2)
    ELSE IF lib = "posthog"
    THEN IF KeywordValue(c.keywords, "event").kind = "Constant"
         THEN KeywordValue(c.keywords, "event")
         ELSE Positional(c, 2)
    ELSE IF lib = "amplitude"
    THEN KeywordValue(Positional(c, 1).keywords, "event_type")
    ELSE IF lib = "snowplow"
    THEN IF IsConstructorCall(Positional(c, 1), "StructuredEvent")
         THEN KeywordValue(Positional(c, 1).keywords, "action")
         ELSE NoNode
    ELSE IF lib = "custom" THEN Positional(c, 1)
    ELSE NoNode

\* the expression given as property bag to library lib, NoNode if absent
PropertyBag(c, lib) ==
    IF lib \in {"segment", "rudderstack", "mixpanel"} THEN Positional(c, 3)
    ELSE IF lib = "posthog"
    THEN IF KeywordValue(c.keywords, "properties") # NoNode
         THEN KeywordValue(c.keywords, "properties")
         ELSE Positional(c, 3)
    ELSE IF lib = "amplitude"
    THEN KeywordValue(Positional(c, 1).keywords, "event_properties")
    ELSE IF lib = "custom" THEN Positional(c, 2)
    ELSE NoNode

IsLiteralString(node) == node.kind = "Constant" /\ node.value.t = "str"

\* the kind of a literal scalar
KindOf(value) ==
    IF value.t = "bool" THEN "boolean"
    ELSE IF value.t = "str" THEN "string"
    ELSE IF value.t \in {"int", "float"} THEN "number"
    ELSE IF value.t = "NoneType" THEN "null"
    ELSE "any"

PosthogReserved == {StrV("$set"), StrV("$set_once"), StrV("$process_person_profile")}

\* every literal key of the mapping literal bag with a literal value (the
\* last one given for that key) is a property of that value's kind
ReflectsBag(properties, bag, lib) ==
    \A i \in 1..Len(bag.keys) :
        ( /\ bag.keys[i].kind = "Constant"
          /\ bag.values[i].kind = "Constant"
          /\ ~(lib = "posthog" /\ bag.keys[i].value \in PosthogReserved)
          /\ \A j \in (i + 1)..Len(bag.keys) : bag.keys[j] # bag.keys[i] )
        => /\ DictHas(properties, bag.keys[i].value)
           /\ DictGet(properties, bag.keys[i].value)
                 = [type |-> KindOf(bag.values[i].value)]

\* every keyword of StructuredEvent other than action with a literal value
\* is a property of that value's kind
ReflectsKeywords(properties, keywords) ==
    \A i \in 1..Len(keywords) :
        (keywords[i].arg \notin {"", "action", "property_"}
         /\ keywords[i].value.kind = "Constant")
        => /\ DictHas(properties, StrV(keywords[i].arg))
           /\ DictGet(properties, StrV(keywords[i].arg))
                 = [type |-> KindOf(keywords[i].value.value)]

\* exactly one record stands for call c, with this name and library, and
\* its properties reflect the literal values of the call
OneRecord(c, lib) ==
    \E i \in 1..Len(events) :
        /\ RecordsOf(c) = {i}
        /\ events[i].eventName = EventNamePosition(c, lib).value
        /\ events[i].source = lib
        /\ IF lib = "snowplow"
           THEN ReflectsKeywords(events[i].properties, Positional(c, 1).keywords)
           ELSE ReflectsBag(events[i].properties, PropertyBag(c, lib), lib)

\* the action argument of a direct Snowplow function call
DirectSnowplowAction(c) ==
    IF c.func.kind = "Name" /\ c.func.id \in {"trackStructEvent", "buildStructEvent"}
    THEN Positional(c, 2)
    ELSE NoNode

(***************************************************************************)
(* Claims                                                                  *)
(***************************************************************************)

\* C1 (as stated): every call in a documented shape of a library, the direct
\* Snowplow functions included, with a literal string as event name and a
\* mapping literal as property bag, has exactly one record, of that name and
\* library.
C1_EveryDocumentedShapeYieldsARecord ==
    Done =>
        \A c \in CallsIn(tree) :
            LET lib == Library(c)
            IN  \/ /\ lib \notin {"none", "snowplow"}
                   /\ IsLiteralString(EventNamePosition(c, lib))
                   /\ PropertyBag(c, lib).kind = "Dict"
                \/ /\ lib = "snowplow"
                   /\ \/ IsLiteralString(EventNamePosition(c, lib))
                      \/ IsLiteralString(DirectSnowplowAction(c))
                => RecordsOf(c) # {}

\* C1 (amended): a call in a documented shape with a non-empty literal string
\* as event name and a mapping literal as property bag (for snowplow: a
\* StructuredEvent(action=..., ...) as first argument, with its keywords)
\* has exactly one record; its eventName is the literal, its source the
\* library, and its properties reflect the literal values, wherever the
\* call stands.
C1_DocumentedShapeYieldsOneRecord ==
    Done =>
        \A c \in CallsIn(tree) :
            LET lib == Library(c)
                name == EventNamePosition(c, lib)
            IN  ( /\ lib # "none"
                  /\ IsLiteralString(name) /\ name.value.v # ""
                  /\ lib # "snowplow" => PropertyBag(c, lib).kind = "Dict" )
                => OneRecord(c, lib)

\* a custom call inside the property bag of a segment call: both have a record
C1_Witness ==
    /\ Done
    /\ Len(events) = 2
    /\ events[1].source = "segment" /\ events[1].line = 20
    /\ events[2].source = "custom" /\ events[2].line = 1
    /\ events[2].properties = << <<StrV("plan"), [type |-> "string"]>>,
                                 <<StrV("price"), [type |-> "number"]>> >>

\* C2: a recognized call whose event-name position holds no literal (an
\* identifier, an attribute, a call, an f-string, or nothing) has no record,
\* and the walk still reaches every call nested in its arguments.
C2_NoLiteralNameNoRecord ==
    Done =>
        \A c \in CallsIn(tree) :
            LET source == detect_source(c, custom_function)
            IN  (source # NoSource /\ EventNamePosition(c, source).kind # "Constant")
                => /\ RecordsOf(c) = {}
                   /\ \A d \in CallsIn(c) : d.lineno \in Range(visited)

\* analytics.track("u1", make_name(mp.track("u2", "Inner", {})), {...}): no
\* record for the outer call, one for the call inside its name argument
C2_Witness ==
    /\ Done
    /\ \E c \in CallsIn(tree) :
          /\ c.lineno = 1
          /\ detect_source(c, custom_function) = "segment"
          /\ Positional(c, 2).kind = "Call"
    /\ visited = <<1, 60, 61>>
    /\ Len(events) = 1
    /\ events[1].line = 61 /\ events[1].eventName = StrV("Inner")

\* C3: the eventName of every output record is a non-empty string.
C3_EventNameIsNonEmptyString ==
    Done =>
        \A i \in 1..Len(output) :
            /\ output[i].eventName.json = "string"
            /\ output[i].eventName.text # ""

RECURSIVE ScopedCalls(_, _)
\* the pairs <<line of a call, name of the innermost function or class
\* definition whose body holds it>> of a subtree that stands in scope
ScopedCalls(node, scope) ==
    IF node.kind \in {"FunctionDef", "AsyncFunctionDef", "ClassDef"}
    THEN UNION {ScopedCalls(b, node.name) : b \in Range(node.body)}
         \cup UNION {ScopedCalls(d, scope) : d \in Range(node.decorator_list)}
    ELSE (IF node.kind = "Call" THEN {<<node.lineno, scope>>} ELSE {})
         \cup UNION {ScopedCalls(ch, scope) : ch \in Range(Children(node))}

\* C4: functionName of a record is the name of the innermost function or
\* class lexically enclosing the call, "global" when there is none.
C4_FunctionNameIsInnermostScope ==
    Done =>
        \A i \in 1..Len(events) :
            <<events[i].line, events[i].functionName>> \in ScopedCalls(tree, "global")

IdentityKey(lib) == IF lib = "mixpanel" THEN StrV("distinct_id") ELSE StrV("user_id")

HasLiteralKey(bag, key) ==
    bag.kind = "Dict" /\ \E i \in 1..Len(bag.keys) : bag.keys[i] = Constant(key)

\* C5: a segment or rudderstack record has user_id, a mixpanel record
\* distinct_id, whenever the first positional argument is there and is not
\* the literal None, whatever expression it is; and has none from the call
\* when the argument is absent or None.
C5_IdentityWheneverFirstArgumentNotNull ==
    Done =>
        \A c \in CallsIn(tree) :
            LET lib == Library(c)
                first == Positional(c, 1)
            IN  lib \in {"segment", "rudderstack", "mixpanel"} =>
                    \A i \in RecordsOf(c) :
                        IF first \notin {NoNode, Constant(PyNone)}
                        THEN DictHas(events[i].properties, IdentityKey(lib))
                        ELSE DictHas(events[i].properties, IdentityKey(lib))
                                => HasLiteralKey(PropertyBag(c, lib), IdentityKey(lib))

\* the mapping sets $process_person_profile to the literal False
SetsProfileFlagFalse(bag) ==
    /\ bag.kind = "Dict"
    /\ \E i \in 1..Len(bag.keys) :
          /\ bag.keys[i] = K("$process_person_profile")
          /\ bag.values[i] = Constant(PyFalse)

\* C6: a posthog record of a call that is not anonymized has distinct_id
\* whenever the call has a first positional argument, a bare identifier
\* included.
C6_PosthogIdentityWheneverFirstArgument ==
    Done =>
        \A c \in CallsIn(tree) :
            ( /\ Library(c) = "posthog"
              /\ ~SetsProfileFlagFalse(PropertyBag(c, "posthog"))
              /\ Positional(c, 1) # NoNode )
            => \A i \in RecordsOf(c) :
                   DictHas(events[i].properties, StrV("distinct_id"))

\* C7: a posthog record whose mapping (keyword properties=, else the third
\* positional argument) has the literal key $process_person_profile with the
\* literal False, at whatever place among the keys, has no injected
\* distinct_id: the key is there only if the mapping itself gives it.
C7_AnonymousHasNoInjectedIdentity ==
    Done =>
        \A c \in CallsIn(tree) :
            (Library(c) = "posthog" /\ SetsProfileFlagFalse(PropertyBag(c, "posthog")))
            => \A i \in RecordsOf(c) :
                   /\ DictHas(events[i].properties, StrV("distinct_id"))
                         => HasLiteralKey(PropertyBag(c, "posthog"), StrV("distinct_id"))
                   /\ (events[i].properties # <<>>
                       /\ ~HasLiteralKey(PropertyBag(c, "posthog"), StrV("distinct_id")))
                         => events[i].properties[1][1] # StrV("distinct_id")

\* posthog.capture("u1", "Signed Up", {"plan": "pro",
\* "$process_person_profile": False}): the flag is the second key
C7_Witness ==
    /\ Done
    /\ \E c \in CallsIn(tree) :
          /\ Library(c) = "posthog"
          /\ Positional(c, 1) = K("u1")
          /\ PropertyBag(c, "posthog").kind = "Dict"
          /\ Len(PropertyBag(c, "posthog").keys) = 2
          /\ PropertyBag(c, "posthog").keys[2] = K("$process_person_profile")
          /\ PropertyBag(c, "posthog").values[2] = Constant(PyFalse)
          /\ RecordsOf(c) # {}
    /\ Len(events) = 1
    /\ events[1].properties = << <<StrV("plan"), [type |-> "string"]>> >>

\* C8: the properties of a posthog record have none of the keys $set,
\* $set_once, $process_person_profile; every literal key k of a mapping under
\* $set or $set_once is there as "$set.k" or "$set_once.k", of the value's
\* kind when the value is a literal; for every other library the three keys
\* are properties like any other.
C8_PosthogReservedKeys ==
    Done =>
        \A c \in CallsIn(tree) :
            LET lib == Library(c)
                bag == PropertyBag(c, lib)
            IN  (lib # "none" /\ bag.kind = "Dict") =>
                \A r \in RecordsOf(c) :
                    IF lib = "posthog"
                    THEN /\ \A k \in PosthogReserved : ~DictHas(events[r].properties, k)
                         /\ \A i \in 1..Len(bag.keys) :
                               ( /\ bag.keys[i] \in {K("$set"), K("$set_once")}
                                 /\ bag.values[i].kind = "Dict" )
                               => \A j \in 1..Len(bag.values[i].keys) :
                                     LET nested == bag.values[i]
                                         flat == StrV(bag.keys[i].value.v \o "."
                                                      \o nested.keys[j].value.v)
                                     IN  nested.keys[j].kind = "Constant"
                                         => /\ DictHas(events[r].properties, flat)
                                            /\ nested.values[j].kind = "Constant"
                                                  => DictGet(events[r].properties, flat)
                                                       = [type |-> KindOf(nested.values[j].value)]
                    ELSE \A i \in 1..Len(bag.keys) :
                             ( /\ bag.keys[i].kind = "Constant"
                               /\ bag.keys[i].value \in PosthogReserved
                               /\ bag.values[i].kind \in {"Constant", "Name", "Dict"} )
                             => DictHas(events[r].properties, bag.keys[i].value)

\* the kind the collapse rule takes an element of a sequence literal for
ElementKind(e) ==
    IF e.kind = "Constant" THEN KindOf(e.value)
    ELSE IF e.kind = "Dict" THEN "object"
    ELSE IF e.kind \in {"List", "Tuple"} THEN "array"
    ELSE IF e.kind = "Name" /\ e.id \in DOMAIN var_types
            /\ "s" \in DOMAIN var_types[e.id]
    THEN var_types[e.id].s
    ELSE "any"

\* the collapse rule on a set of kinds
Collapse(kinds) ==
    IF kinds = {} THEN "any"
    ELSE IF \E k \in kinds : kinds = {k} THEN CHOOSE k \in kinds : TRUE
    ELSE IF kinds \subseteq {"number", "string"} THEN "string"
    ELSE IF kinds \subseteq {"number", "boolean"} THEN "number"
    ELSE "any"

Reordered(seq_node, f) ==
    [seq_node EXCEPT !.elts = [i \in 1..Len(seq_node.elts) |-> seq_node.elts[f[i]]]]

PrimitiveKind(annotation) ==
    IF annotation \in {Name("int"), Name("float")} THEN "number"
    ELSE IF annotation = Name("str") THEN "string"
    ELSE IF annotation = Name("bool") THEN "boolean"
    ELSE IF annotation = Constant(PyNone) THEN "null"
    ELSE "none"

\* no statement of body binds a name anew
NoBinding(body) ==
    \A i \in 1..Len(body) :
        \/ body[i].kind = "Expr"
        \/ body[i].kind = "Assign" /\ body[i].targets = <<Name("other")>>

Parameters(def) == def.args.posonlyargs \o def.args.args \o def.args.kwonlyargs

\* C10: inside a function, a parameter annotated int, float, str, bool or
\* None and passed by its bare name as a property value gives a property of
\* the annotated kind.
C10_AnnotatedParameterIsTyped ==
    Done =>
        \A def \in Range(tree.body) :
            (def.kind \in {"FunctionDef", "AsyncFunctionDef"} /\ NoBinding(def.body)) =>
            \A p \in Range(Parameters(def)) :
                PrimitiveKind(p.annotation) # "none" =>
                \A stmt \in Range(def.body) : \A c \in CallsIn(stmt) :
                    LET bag == PropertyBag(c, Library(c))
                    IN  bag.kind = "Dict" =>
                        \A j \in 1..Len(bag.keys) : \A i \in RecordsOf(c) :
                            (bag.keys[j].kind = "Constant" /\ bag.values[j] = Name(p.arg))
                            => /\ DictHas(events[i].properties, bag.keys[j].value)
                               /\ DictGet(events[i].properties, bag.keys[j].value)
                                     = [type |-> PrimitiveKind(p.annotation)]

\* C11: two calls of analyze_python_code with the same source and the same
\* custom-function name return the same output, records and properties in
\* the same order, whatever was analysed in between.
C11_SameInputSameOutput ==
    \A i, j \in 1..Len(runs) :
        (runs[i].tree = runs[j].tree /\ runs[i].custom = runs[j].custom)
        => runs[i].output = runs[j].output

\* the same module analysed first and third, another one in between
C11_Witness ==
    /\ Len(runs) = 3
    /\ runs[1].tree = runs[3].tree /\ runs[1].custom = runs[3].custom
    /\ runs[2].tree # runs[1].tree
    /\ Len(runs[1].output) = 2 /\ Len(runs[2].output) = 1
    /\ runs[3].output = runs[1].output

RECURSIVE HasUnserializableKey(_)
\* a properties dict, at any depth, has a key json.dumps has no text for
HasUnserializableKey(properties) ==
    \E i \in 1..Len(properties) :
        \/ properties[i][1].t \in {"bytes", "ellipsis"}
        \/ /\ "properties" \in DOMAIN properties[i][2]
           /\ HasUnserializableKey(properties[i][2].properties)

\* the source did not parse, or the result could not be built from the events
SomethingRaised ==
    \/ tree = SyntaxError
    \/ \E i \in 1..Len(events) :
          \/ events[i].eventName.t \in {"bytes", "ellipsis"}
          \/ HasUnserializableKey(events[i].properties)

\* C12: analyze_python_code always returns: when the source does not parse,
\* and when building the result from the events fails, it returns the empty
\* sequence.
C12_FailureReturnsEmpty ==
    /\ pc \in {"start", "walk", "done"}
    /\ (pc = "done" /\ SomethingRaised) => (output = <<>> /\ runs # <<>>)

\* a record was made whose property key is a bytes literal, and the call
\* returned the empty sequence
C12_Witness ==
    /\ Done
    /\ Len(events) = 1
    /\ Len(events[1].properties) >= 2
    /\ events[1].properties[2][1] = BytesV("raw")
    /\ output = <<>>

\* a call in a documented shape with a non-empty literal string as name and a
\* mapping of literal string keys and literal scalar values as property bag
WellFormed(c) ==
    LET lib == Library(c)
        bag == PropertyBag(c, lib)
    IN  /\ lib \notin {"none", "snowplow"}
        /\ IsLiteralString(EventNamePosition(c, lib))
        /\ EventNamePosition(c, lib).value.v # ""
        /\ bag.kind = "Dict"
        /\ \A i \in 1..Len(bag.keys) :
              /\ IsLiteralString(bag.keys[i])
              /\ bag.values[i].kind = "Constant"
              /\ bag.values[i].value.t \in {"str", "int", "float", "bool", "NoneType"}

\* C13: whatever the other calls of the file are, every well-formed call has
\* its record in the output that analyze_python_code returns.
C13_WellFormedCallKeepsItsRecord ==
    Done =>
        \A c \in CallsIn(tree) :
            WellFormed(c) => \E k \in 1..Len(output) : output[k].line = c.lineno

\* C14: a record has source "custom" only if a custom-function name was
\* supplied and the record's call is a direct call of that very identifier.
C14_CustomOnlyForSuppliedName ==
    \A i \in 1..Len(events) :
        events[i].source = "custom" =>
            /\ custom_function # ""
            /\ \E c \in CallsIn(tree) :
                  /\ c.lineno = events[i].line
                  /\ c.func = Name(custom_function)

\* customTrackFunction("Signed Up", {...}) with that name supplied
C14_Witness ==
    /\ Done
    /\ custom_function = "customTrackFunction"
    /\ tree = OneCall(FuncCall(1, "customTrackFunction", <<K("Signed Up"), BaseBag>>, <<>>))
    /\ Len(events) = 1
    /\ events[1].source = "custom"

RECURSIVE SourceOrder(_), SourceOrderAll(_)
\* the lines of the calls of a subtree in the order in which the calls start
\* in the source text: decorators stand before the definition they
\* decorate, each value of a mapping literal right after its key
SourceOrder(node) ==
    IF node.kind = "Call"
    THEN <<node.lineno>> \o SourceOrderAll(Children(node))
    ELSE IF node.kind \in {"FunctionDef", "AsyncFunctionDef"}
    THEN SourceOrderAll(node.decorator_list \o <<node.args>> \o node.body)
    ELSE IF node.kind = "ClassDef"
    THEN SourceOrderAll(node.decorator_list \o node.body)
    ELSE IF node.kind = "Dict"
    THEN SourceOrderAll(present([i \in 1..(2 * Len(node.keys)) |->
                                    IF i % 2 = 1 THEN node.keys[(i + 1) \div 2]
                                    ELSE node.values[i \div 2]]))
    ELSE SourceOrderAll(Children(node))

SourceOrderAll(nodes) ==
    IF nodes = <<>> THEN <<>>
    ELSE SourceOrder(Head(nodes)) \o SourceOrderAll(Tail(nodes))

\* the place of the call on line l in the source order of the tree
PlaceInSource(l) ==
    CHOOSE k \in 1..Len(SourceOrder(tree)) : SourceOrder(tree)[k] = l

\* C15: the records stand in the order in which their calls start in the
\* source text, an enclosing call before the calls nested in its arguments,
\* wherever the calls stand (bodies, arguments, keys and values of mapping
\* literals, decorators).
C15_RecordsInSourceOrder ==
    Done =>
        \A i, j \in 1..Len(events) :
            i < j => PlaceInSource(events[i].line) < PlaceInSource(events[j].line)

\* the library the (receiver, method) table gives for a method call on an
\* identifier, "none" if it has no row for it
TableTag(c) ==
    LET pair == <<c.func.value.id, c.func.attr>>
    IN  IF pair = <<"analytics", "track">> THEN "segment"
        ELSE IF pair = <<"mp", "track">> THEN "mixpanel"
        ELSE IF pair = <<"rudder_analytics", "track">> THEN "rudderstack"
        ELSE IF pair = <<"posthog", "capture">> THEN "posthog"
        ELSE "none"

\* c is <something>.track(BaseEvent(...), ...)
IsBaseEventTrack(c) ==
    /\ c.func.kind = "Attribute" /\ c.func.attr = "track"
    /\ IsConstructorCall(Positional(c, 1), "BaseEvent")

\* C16: for a method call on an identifier the table is tried first, then
\* the amplitude rule, then the snowplow rule: a table row wins even with
\* BaseEvent(...) or StructuredEvent(...) as first argument, every other
\* r.track(BaseEvent(...)) is amplitude (r = tracker included), snowplow is
\* given only when neither matched; and the records carry that tag.
C16_FirstMatchingRuleWins ==
    Done =>
        \A c \in CallsIn(tree) :
            (c.func.kind = "Attribute" /\ c.func.value.kind = "Name") =>
                LET tag == detect_source(c, custom_function)
                IN  /\ TableTag(c) # "none" => tag = TableTag(c)
                    /\ (TableTag(c) = "none" /\ IsBaseEventTrack(c)) => tag = "amplitude"
                    /\ tag = "snowplow" => (TableTag(c) = "none" /\ ~IsBaseEventTrack(c))
                    /\ \A i \in RecordsOf(c) : events[i].source = tag

\* analytics.track(BaseEvent(event_type="Clicked"), "Signed Up", {...}) has a
\* segment record named by its second argument
C16_Witness ==
    /\ Done
    /\ \E c \in CallsIn(tree) :
          /\ c.func = Attribute(Name("analytics"), "track")
          /\ IsBaseEventTrack(c)
          /\ RecordsOf(c) = {1}
    /\ Len(events) = 1
    /\ events[1].source = "segment"
    /\ events[1].eventName = StrV("Signed Up")

\* C17: every <receiver>.track(BaseEvent(...)) that the table does not match
\* is tagged amplitude, and every <receiver>.track(StructuredEvent(...))
\* snowplow, whatever expression the receiver is: an identifier, an attribute
\* chain or the result of a call.
C17_AnyReceiverForm ==
    Done =>
        \A c \in CallsIn(tree) :
            (c.func.kind = "Attribute" /\ c.func.attr = "track"
             /\ ~(c.func.value.kind = "Name" /\ TableTag(c) # "none")) =>
                /\ IsBaseEventTrack(c) => detect_source(c, custom_function) = "amplitude"
                /\ IsConstructorCall(Positional(c, 1), "StructuredEvent")
                      => detect_source(c, custom_function) = "snowplow"

RECURSIVE EveryEntryIsProperty(_, _, _)
\* every literal key of the mapping literal bag, reserved posthog keys apart,
\* is a key of properties, of type any when its value is neither a literal
\* scalar, an identifier, a mapping literal nor a list or tuple literal, and
\* so on for the entries of the mapping literals among its values
EveryEntryIsProperty(properties, bag, lib) ==
    \A i \in 1..Len(bag.keys) :
        (bag.keys[i].kind = "Constant"
         /\ ~(lib = "posthog" /\ bag.keys[i].value \in PosthogReserved)) =>
            /\ DictHas(properties, bag.keys[i].value)
            /\ (bag.values[i].kind \notin {"Constant", "Name", "Dict", "List", "Tuple"}
                /\ \A j \in (i + 1)..Len(bag.keys) : bag.keys[j] # bag.keys[i])
                  => DictGet(properties, bag.keys[i].value) = [type |-> "any"]
            /\ (bag.values[i].kind = "Dict"
                /\ \A j \in (i + 1)..Len(bag.keys) : bag.keys[j] # bag.keys[i])
                  => EveryEntryIsProperty(DictGet(properties, bag.keys[i].value).properties,
                                          bag.values[i], "nested")

\* C18: every literal-keyed entry of a property mapping, and every keyword
\* of StructuredEvent other than action, is a property of the record; a
\* value that is a call, an attribute, an f-string or another expression
\* gives it the type any; likewise in nested mappings.
C18_EveryEntryYieldsAProperty ==
    Done =>
        \A c \in CallsIn(tree) :
            LET lib == Library(c)
                bag == PropertyBag(c, lib)
            IN  \A r \in RecordsOf(c) :
                    /\ (lib # "snowplow" /\ bag.kind = "Dict")
                          => EveryEntryIsProperty(events[r].properties, bag, lib)
                    /\ (lib = "snowplow" /\ IsStructuredEventCall(c)) =>
                          \A k \in Range(Positional(c, 1).keywords) :
                              k.arg \notin {"", "action"} =>
                                  DictHas(events[r].properties,
                                          StrV(IF k.arg = "property_" THEN "property"
                                               ELSE k.arg))

IsArrayAnnotation(a) ==
    /\ a.kind = "Subscript"
    /\ a.value \in {Name("List"), Name("Tuple"), Name("Set"),
                    Name("list"), Name("tuple"), Name("set")}

RECURSIVE DeclaredDescriptor(_)
\* the descriptor an annotation declares: an array-like generic always has
\* items, those of its one element type, any when it has several or an
\* unknown one
DeclaredDescriptor(a) ==
    IF IsArrayAnnotation(a)
    THEN [type |-> "array",
          items |-> IF a.slice.kind \in {"Name", "Subscript"}
                    THEN DeclaredDescriptor(a.slice)
                    ELSE [type |-> "any"]]
    ELSE IF PrimitiveKind(a) # "none" THEN [type |-> PrimitiveKind(a)]
    ELSE IF a.kind = "Subscript" /\ a.value \in {Name("Dict"), Name("dict")}
    THEN [type |-> "object"]
    ELSE [type |-> "any"]

\* C19: a parameter annotated with an array-like generic and passed by its
\* bare name as a property value gives {type: array, items: ...}: the
\* items of the declared element type, resolved recursively for a nested
\* generic, and items of type any for several or unknown element types.
C19_ArrayAnnotationHasItems ==
    Done =>
        \A def \in Range(tree.body) :
            (def.kind = "FunctionDef" /\ NoBinding(def.body)) =>
            \A p \in Range(def.args.args) :
                IsArrayAnnotation(p.annotation) =>
                \A stmt \in Range(def.body) : \A c \in CallsIn(stmt) :
                    LET bag == PropertyBag(c, Library(c))
                    IN  bag.kind = "Dict" =>
                        \A j \in 1..Len(bag.keys) : \A i \in RecordsOf(c) :
                            (bag.keys[j].kind = "Constant" /\ bag.values[j] = Name(p.arg))
                            => DictGet(events[i].properties, bag.keys[j].value)
                                  = DeclaredDescriptor(p.annotation)

\* the kind of a literal scalar, the boolean test made first
LiteralKind(value) ==
    IF value \in {PyTrue, PyFalse} THEN "boolean"
    ELSE IF value.t = "str" THEN "string"
    ELSE IF value.t \in {"int", "float"} THEN "number"
    ELSE IF value = PyNone THEN "null"
    ELSE "any"

\* C20: get_value_type gives boolean for True and False, string for a
\* string, number for an integer or floating literal, null for None and any
\* for every other constant; and a property whose value is a literal, in a
\* property mapping or in a mapping nested in it, is {type: that kind}.
C20_LiteralKinds ==
    /\ \A x \in Literals : get_value_type(x) = LiteralKind(x)
    /\ Done =>
          \A c \in CallsIn(tree) :
              LET lib == Library(c)
                  bag == PropertyBag(c, lib)
              IN  (lib # "none" /\ bag.kind = "Dict") =>
                  \A r \in RecordsOf(c) : \A i \in 1..Len(bag.keys) :
                      ( /\ IsLiteralString(bag.keys[i])
                        /\ ~(lib = "posthog" /\ bag.keys[i].value \in PosthogReserved)
                        /\ \A j \in (i + 1)..Len(bag.keys) : bag.keys[j] # bag.keys[i] )
                      => LET value == bag.values[i]
                             property == DictGet(events[r].properties, bag.keys[i].value)
                         IN  /\ value.kind = "Constant"
                                   => property = [type |-> LiteralKind(value.value)]
                             /\ value.kind = "Dict" =>
                                   \A k \in 1..Len(value.keys) :
                                       (IsLiteralString(value.keys[k])
                                        /\ value.values[k].kind = "Constant"
                                        /\ \A j \in (k + 1)..Len(value.keys) :
                                              value.keys[j] # value.keys[k])
                                       => DictGet(property.properties, value.keys[k].value)
                                             = [type |-> LiteralKind(value.values[k].value)]

\* analytics.track("u1", "Signed Up", {"v": True}): v is boolean
C20_Witness ==
    /\ Done
    /\ tree = OneCall(SegmentCall(1, K("Signed Up"),
                                  DictOf(<< <<K("v"), Constant(PyTrue)>> >>)))
    /\ Len(events) = 1
    /\ events[1].properties = << <<StrV("user_id"), [type |-> "string"]>>,
                                 <<StrV("v"), [type |-> "boolean"]>> >>

RECURSIVE TargetNames(_)
\* the names an assignment target holds
TargetNames(target) ==
    IF target.kind = "Name" THEN {target.id}
    ELSE UNION {TargetNames(ch) : ch \in Range(Children(target))}

\* the names statement stmt binds in the scope it stands in
BoundBy(stmt) ==
    IF stmt.kind = "Assign" THEN UNION {TargetNames(t) : t \in Range(stmt.targets)}
    ELSE IF stmt.kind \in {"AnnAssign", "AugAssign"} THEN TargetNames(stmt.target)
    ELSE {}

\* the entries of the mapping literal bag that become a property under
\* their own key: a literal string key, not reserved by the library, that is
\* not given again later in the mapping
OwnEntries(bag, lib) ==
    {i \in 1..Len(bag.keys) :
        /\ IsLiteralString(bag.keys[i])
        /\ ~(lib = "posthog" /\ bag.keys[i].value \in PosthogReserved)
        /\ \A j \in (i + 1)..Len(bag.keys) : bag.keys[j] # bag.keys[i]}

\* the property values of call c that are a bare name or a list of one bare
\* name: <<line, key, name, is a list>>
NameUses(c) ==
    LET lib == Library(c)
        bag == PropertyBag(c, lib)
    IN  IF bag.kind # "Dict" THEN {}
        ELSE {<<c.lineno, bag.keys[i].value, bag.values[i].id, FALSE>> :
                 i \in {j \in OwnEntries(bag, lib) : bag.values[j].kind = "Name"}}
             \cup {<<c.lineno, bag.keys[i].value, bag.values[i].elts[1].id, TRUE>> :
                 i \in {j \in OwnEntries(bag, lib) :
                           /\ bag.values[j].kind = "List"
                           /\ Len(bag.values[j].elts) = 1
                           /\ bag.values[j].elts[1].kind = "Name"}}

RECURSIVE UnboundUses(_, _)
\* the uses, in the call statements of a scope's body and of the bodies of
\* the definitions in it, of a name that the scope of the use does not bind
\* before the use; bound holds the names the scope has bound so far
UnboundUses(body, bound) ==
    IF body = <<>> THEN {}
    ELSE LET stmt == Head(body)
         IN  IF stmt.kind \in DefKinds
             THEN UnboundUses(stmt.body,
                              IF stmt.kind = "ClassDef" THEN {}
                              ELSE {p.arg : p \in Range(Parameters(stmt))})
                  \cup UnboundUses(Tail(body), bound)
             ELSE IF stmt.kind = "Expr" /\ stmt.value.kind = "Call"
             THEN {u \in NameUses(stmt.value) : u[3] \notin bound}
                  \cup UnboundUses(Tail(body), bound)
             ELSE UnboundUses(Tail(body), bound \cup BoundBy(stmt))

\* every use in uses has the descriptor of an unbound name
TypedAny(uses) ==
    \A u \in uses : \A i \in 1..Len(events) :
        events[i].line = u[1] =>
            DictGet(events[i].properties, u[2])
                = IF u[4] THEN [type |-> "array", items |-> [type |-> "any"]]
                  ELSE [type |-> "any"]

\* C21: a name passed as a property value in a scope (module, function,
\* asynchronous function or class) that has not bound it, by a parameter or
\* by an assignment standing in that scope before the call, is typed any:
\* neither the bindings of the enclosing scopes nor those of the definitions
\* that precede the call in the same scope are seen.
C21_ScopesDoNotShareBindings ==
    Done => TypedAny(UnboundUses(tree.body, {}))

RECURSIVE CallDepths(_, _, _)
\* the pairs <<line of a call, number of definitions of these kinds the
\* call stands in>> of a subtree that stands in d of them
CallDepths(node, d, kinds) ==
    (IF node.kind = "Call" THEN {<<node.lineno, d>>} ELSE {})
    \cup UNION {CallDepths(ch, IF node.kind \in kinds THEN d + 1 ELSE d, kinds) :
                   ch \in Range(Children(node))}

\* the walk is at a call
AtCall == pc = "walk" /\ todo # <<>> /\ Head(todo).kind = "Call"

\* C22: function_stack and var_types_stack have the same length; when the
\* walk reaches a call, that length is the number of function, asynchronous
\* function and class definitions being visited; the statements that pop
\* find both stacks non-empty; and when the walk is over both stacks are
\* empty and current_function is "global".
C22_ScopeStackDiscipline ==
    /\ Len(function_stack) = Len(var_types_stack)
    /\ AtCall => <<Head(todo).lineno, Len(function_stack)>> \in CallDepths(tree, 0, DefKinds)
    /\ (pc = "walk" /\ todo # <<>> /\ Head(todo) = Restore) => Len(function_stack) >= 1
    /\ ((pc = "walk" /\ todo = <<>>) \/ Done)
          => /\ function_stack = <<>>
             /\ var_types_stack = <<>>
             /\ current_function = "global"

RECURSIVE NamedKeywords(_)
\* the keywords given by name other than action, in source order
NamedKeywords(keywords) ==
    IF keywords = <<>> THEN <<>>
    ELSE (IF Head(keywords).arg \in {"", "action"} THEN <<>> ELSE <<Head(keywords)>>)
         \o NamedKeywords(Tail(keywords))

\* the key a keyword of StructuredEvent is emitted under
SnowplowKey(kw) == StrV(IF kw.arg = "property_" THEN "property" ELSE kw.arg)

\* C23: a snowplow record made from <receiver>.track(StructuredEvent(...))
\* is named by the literal value of the action keyword, and its properties
\* are, in source order, the keywords given by name other than action, one
\* property each and nothing else (no identity property), property_ under
\* the key property, a literal value typed by its kind.
C23_SnowplowPropertiesAreKeywords ==
    Done =>
        \A c \in CallsIn(tree) : \A r \in RecordsOf(c) :
            (IsStructuredEventCall(c) /\ events[r].source = "snowplow") =>
            LET keywords == Positional(c, 1).keywords
                named == NamedKeywords(keywords)
                properties == events[r].properties
            IN  /\ KeywordValue(keywords, "action").kind = "Constant"
                /\ events[r].eventName = KeywordValue(keywords, "action").value
                /\ Len(properties) = Len(named)
                /\ \A i \in 1..Len(properties) :
                      /\ properties[i][1] = SnowplowKey(named[i])
                      /\ named[i].value.kind = "Constant"
                            => properties[i][2] = [type |-> KindOf(named[i].value.value)]

\* the records of the calls that are statements of the body of a top-level
\* definition of kind k with no binding statement name that definition and
\* type the properties with the definition's annotated parameters
FrameOfDefinition(k) ==
    \A def \in Range(tree.body) :
        (def.kind = k /\ NoBinding(def.body)) =>
        \A stmt \in Range(def.body) :
            (stmt.kind = "Expr" /\ stmt.value.kind = "Call") =>
            \A r \in RecordsOf(stmt.value) :
                /\ events[r].functionName = def.name
                /\ events[r].properties =
                      extract_properties(stmt.value, events[r].source,
                                         parameter_types(def.args.args, EmptyTypes))

\* C24: a tracking call directly in the body of an async def has the name
\* of that function as functionName and sees the types of its annotated
\* parameters, as it does in a def of the same shape.
C24_AsyncDefinitionHasItsFrame ==
    Done => FrameOfDefinition("AsyncFunctionDef")

TypeNames == {"string", "number", "boolean", "null", "object", "array", "any"}

RECURSIVE IsDescriptor(_)
\* desc and every descriptor in it (the entries of properties, items) has a
\* type that is one of the seven type names
IsDescriptor(desc) ==
    /\ desc.type \in TypeNames
    /\ "properties" \in DOMAIN desc =>
          \A i \in 1..Len(desc.properties) : IsDescriptor(desc.properties[i][2])
    /\ "items" \in DOMAIN desc => IsDescriptor(desc.items)

\* C25: every type descriptor of a record, collected or returned, at any
\* depth, has a type field that is one of string, number, boolean, null,
\* object, array, any.
C25_DescriptorTypeIsATypeName ==
    /\ \A i \in 1..Len(events) : \A j \in 1..Len(events[i].properties) :
          IsDescriptor(events[i].properties[j][2])
    /\ \A i \in 1..Len(output) : \A j \in 1..Len(output[i].properties) :
          IsDescriptor(output[i].properties[j][2])

\* def handler(x: List[Decimal]) with x and [x] passed as property values:
\* x is an array of any
C25_Witness ==
    /\ Done
    /\ \E def \in Range(tree.body) :
          /\ def.kind = "FunctionDef"
          /\ def.args.args = <<arg("x", Subscript(Name("List"), Name("Decimal")))>>
          /\ def.body = <<Stmt(UseX(5))>>
    /\ \E i \in 1..Len(output) :
          /\ output[i].functionName = "handler"
          /\ output[i].properties =
                << <<"user_id", [type |-> "string"]>>,
                   <<"x", [type |-> "array", items |-> [type |-> "any"]]>>,
                   <<"xs", [type |-> "array", items |-> [type |-> "any"]]>> >>

\* c has a direct-function shape tagged snowplow: trackStructEvent(...),
\* buildStructEvent(...) or snowplow('trackStructEvent', ...)
IsSnowplowFunctionShape(c) ==
    /\ c.func.kind = "Name"
    /\ \/ c.func.id \in {"trackStructEvent", "buildStructEvent"}
       \/ c.func.id = "snowplow" /\ Positional(c, 1) = K("trackStructEvent")

\* c is tracker.track(<identifier>)
IsTrackerHeuristicShape(c) ==
    /\ c.func = Attribute(Name("tracker"), "track")
    /\ Positional(c, 1).kind = "Name"

\* C26: a call in a direct-function shape of snowplow or in the shape
\* tracker.track(<identifier>) has no record, whatever its arguments.
C26_OnlyStructuredEventTrackYieldsSnowplow ==
    Done =>
        \A c \in CallsIn(tree) :
            (IsSnowplowFunctionShape(c) \/ IsTrackerHeuristicShape(c))
            => RecordsOf(c) = {}

\* the kind an annotation that names int, float, str or bool binds to
NamedKind(annotation) ==
    IF annotation.kind = "Name" THEN PrimitiveKind(annotation) ELSE "none"

\* the kind statement stmt leaves x bound to when it was bound to cur:
\* "none" stands for a binding this claim does not tell the kind of
KindAfter(stmt, cur) ==
    IF stmt.kind = "Assign" /\ stmt.targets = <<Name("x")>> /\ stmt.value.kind = "Constant"
    THEN KindOf(stmt.value.value)
    ELSE IF stmt.kind = "AnnAssign" /\ stmt.target = Name("x")
    THEN NamedKind(stmt.annotation)
    ELSE cur

RECURSIVE UsesAfter(_, _)
\* the pairs <<line of a call statement, kind x is bound to there>> of a
\* body of plain statements in whose scope x is bound to cur
UsesAfter(body, cur) ==
    IF body = <<>> THEN {}
    ELSE LET stmt == Head(body)
         IN  (IF stmt.kind = "Expr" /\ stmt.value.kind = "Call"
              THEN {<<stmt.value.lineno, cur>>} ELSE {})
             \cup UsesAfter(Tail(body), KindAfter(stmt, cur))

\* the kind the parameters of def bind x to
ParameterKind(def) ==
    IF \E p \in Range(def.args.args) : p.arg = "x" /\ p.annotation # NoNode
    THEN NamedKind((CHOOSE p \in Range(def.args.args) : p.arg = "x").annotation)
    ELSE "any"

\* no statement of body is a definition
PlainBody(body) == \A stmt \in Range(body) : stmt.kind \notin DefKinds

\* the uses of x whose scope is the module, when it holds no definition, or
\* a function at the top of the module
UsesOfX ==
    (IF PlainBody(tree.body) THEN UsesAfter(tree.body, "any") ELSE {})
    \cup UNION {UsesAfter(def.body, ParameterKind(def)) :
                   def \in {d \in Range(tree.body) :
                               d.kind = "FunctionDef" /\ PlainBody(d.body)}}

\* x passed as a property value is typed by the last literal assignment,
\* annotated assignment or annotated parameter that bound it
TypedByLastBinding ==
    Done =>
        \A u \in UsesOfX : \A r \in 1..Len(events) :
            (events[r].line = u[1] /\ u[2] # "none"
             /\ DictHas(events[r].properties, StrV("x")))
            => DictGet(events[r].properties, StrV("x")) = [type |-> u[2]]

\* var_types and its successor differ at name only
BindsOnly(name) ==
    /\ DOMAIN var_types' = DOMAIN var_types \cup {name}
    /\ \A y \in DOMAIN var_types \ {name} : var_types'[y] = var_types[y]

\* a step that stays in the frame changes its bindings only at a literal
\* assignment to one name or an annotated assignment to a name, and only
\* for that name; a step that enters a definition starts from the annotated
\* parameters
BindingSteps ==
    /\ (pc = "walk" /\ pc' = "walk" /\ function_stack' = function_stack
        /\ var_types' # var_types)
       => LET node == Head(todo)
          IN  \/ /\ node.kind = "Assign"
                 /\ Len(node.targets) = 1 /\ node.targets[1].kind = "Name"
                 /\ node.value.kind = "Constant"
                 /\ BindsOnly(node.targets[1].id)
              \/ /\ node.kind = "AnnAssign"
                 /\ node.target.kind = "Name"
                 /\ BindsOnly(node.target.id)
    /\ (pc = "walk" /\ Len(function_stack') = Len(function_stack) + 1)
       => DOMAIN var_types' =
             IF Head(todo).kind = "ClassDef" THEN {}
             ELSE {p.arg : p \in {q \in Range(Head(todo).args.args) :
                                     q.annotation # NoNode}}

\* C27: only a literal assignment to a single name, an annotated
\* assignment to a name and an annotated parameter bind a name in the
\* current frame; every other statement (a non-literal value, several
\* targets, tuple unpacking, an augmented assignment) leaves the bindings
\* as they are, so x is still typed by its last binding.
C27_OnlyLiteralAndAnnotatedBind ==
    []TypedByLastBinding /\ [][BindingSteps]_vars

\* x = "text"; x = compute(); analytics.track(..., {"x": x, "xs": [x]}):
\* x is still a string
C27_Witness ==
    /\ Done
    /\ tree = Module(<<Assign(<<Name("x")>>, K("text")),
                       Assign(<<Name("x")>>, FuncCall(30, "compute", <<>>, <<>>)),
                       Stmt(UseX(5))>>)
    /\ Len(events) = 1
    /\ events[1].properties =
          << <<StrV("user_id"), [type |-> "string"]>>,
             <<StrV("x"), [type |-> "string"]>>,
             <<StrV("xs"), [type |-> "array", items |-> [type |-> "string"]]>> >>

\* the synthetic identity key of a library
IdentityKeyOf(lib) ==
    IF lib \in {"mixpanel", "posthog"} THEN StrV("distinct_id") ELSE StrV("user_id")

\* the last value the mapping literal bag gives for the literal key
LastValue(bag, key) ==
    bag.values[CHOOSE i \in 1..Len(bag.keys) :
                  /\ bag.keys[i] = Constant(key)
                  /\ \A j \in (i + 1)..Len(bag.keys) : bag.keys[j] # Constant(key)]

\* the descriptor of value matches what value inference gives: the kind of
\* a literal, any for a name that is not bound, object and array for the
\* mapping and sequence literals, any for every other expression
InferredFrom(desc, value) ==
    CASE value.kind = "Constant" -> desc = [type |-> KindOf(value.value)]
      [] value.kind = "Dict" -> desc.type = "object"
      [] value.kind \in {"List", "Tuple"} -> desc.type = "array"
      [] OTHER -> desc = [type |-> "any"]

\* the record properties hold key once, in first place, with the
\* descriptor inferred from the last value bag gives for it
IdentityFromBag(properties, bag, key) ==
    /\ properties # <<>>
    /\ properties[1][1] = key
    /\ \A i \in 2..Len(properties) : properties[i][1] # key
    /\ InferredFrom(properties[1][2], LastValue(bag, key))

\* the calls at module level of a library with an identity key whose
\* property mapping is a literal that holds that key
GivesIdentityKey(c) ==
    LET lib == Library(c)
    IN  /\ lib \in {"segment", "rudderstack", "amplitude", "mixpanel", "posthog"}
        /\ HasLiteralKey(PropertyBag(c, lib), IdentityKeyOf(lib))

\* C28 (as stated): when the property mapping holds the identity key of the
\* library as a literal key, the record has one entry for that key, in first
\* place, with the descriptor inferred from the last value given for it.
C28_IdentityKeyFromMapping ==
    Done =>
        \A stmt \in Range(tree.body) :
            (stmt.kind = "Expr" /\ stmt.value.kind = "Call" /\ GivesIdentityKey(stmt.value)) =>
            LET c == stmt.value
                lib == Library(c)
            IN  \A r \in RecordsOf(c) :
                    IdentityFromBag(events[r].properties, PropertyBag(c, lib),
                                    IdentityKeyOf(lib))

====
